---- MODULE Spec2Model ----
(***************************************************************************)
(* react-responsive-system: the breakpoint normaliser, the cascade         *)
(* resolver and the override applier of src/src/impl.tsx.                  *)
(*                                                                         *)
(* A JavaScript number is modelled as a record: a finite number is a count *)
(* h of half pixels (so 3 stands for 1.5), Infinity is its own value.  NaN *)
(* only arises as Infinity - Infinity inside the sort comparator, where    *)
(* Array.prototype.sort treats it as +0.                                   *)
(***************************************************************************)
EXTENDS Integers, Sequences, FiniteSets, TLC

VARIABLES
  breakpoints,              \* the configuration's breakpoint map, entries in key order
  cascadeMode,              \* the configuration's cascadeMode ("undefined" when left out)
  status,                   \* "unconfigured" | "created" | "error"
  thrown,                   \* which Error createResponsiveSystem threw ("none" when it did not)
  sortedBreakpoints,        \* const sortedBreakpoints of createResponsiveSystem
  sortedScreenClasses,      \* const sortedScreenClasses of createResponsiveSystem
  screenClassMediaQueries,  \* const screenClassMediaQueries of createResponsiveSystem
  returned,                 \* the keys of the object createResponsiveSystem returned
  call,                     \* the last direct call of an exported unit function
  initialScreenClass,       \* the configuration's initialScreenClass ("undefined" when left out)
  pc,                       \* where the ScreenClassProvider is in its life
  currentScreenClass,       \* the provider's useState value ("undefined" when not set)
  subscribed,               \* the classes whose media query has a change listener
  content,                  \* what the component under the provider rendered last
  viewportWidth,            \* the width of the browser's viewport, in pixels
  events,                   \* the change events the browser has yet to dispatch
  unsubscribeFns,           \* const unsubscribeFns: the class of each closure's MediaQueryList
  previousWidth             \* the viewport's width when the media queries were last evaluated

configVars == <<breakpoints, cascadeMode, initialScreenClass>>
systemVars == <<status, thrown, sortedBreakpoints, sortedScreenClasses,
                screenClassMediaQueries, returned>>
providerVars == <<pc, currentScreenClass, subscribed, content, viewportWidth,
                  events, unsubscribeFns, previousWidth>>

vars == <<configVars, systemVars, call, providerVars>>

\* ---------------------------------------------------------------- bounds
MaxClasses == 3
MaxHalfWidth == 4

\* ---------------------------------------------------------------- numbers
Num(h) == [inf |-> FALSE, h |-> h]
Infinity == [inf |-> TRUE, h |-> 0]
Px(n) == Num(2 * n)

\* x + 1
plusOne(x) == IF x.inf THEN x ELSE Num(x.h + 2)

\* x <= y and x >= y of two numbers
numLE(x, y) == IF y.inf THEN TRUE ELSE IF x.inf THEN FALSE ELSE x.h <= y.h
numGE(x, y) == numLE(y, x)

\* `${x}` of a template literal
numToString(x) ==
  IF x.inf THEN "Infinity"
  ELSE ToString(x.h \div 2) \o (IF x.h % 2 = 1 THEN ".5" ELSE "")

\* ---------------------------------------------------------------- inputs
ScreenClassNames == {"xs", "md", "lg"}
CascadeModes == {"no-cascade", "mobile-first", "desktop-first"}
Widths == {Num(h) : h \in 1..MaxHalfWidth} \cup {Infinity}

RECURSIVE SeqsUpTo(_, _)
SeqsUpTo(S, n) ==
  IF n = 0 THEN {<<>>}
  ELSE LET shorter == SeqsUpTo(S, n - 1)
       IN shorter \cup {Append(s, x) : s \in shorter, x \in S}

Range(s) == {s[i] : i \in 1..Len(s)}
IsInjective(s) == \A i, j \in 1..Len(s) : s[i] = s[j] => i = j

\* every sequence of at most MaxClasses distinct class names
ClassLists == {s \in SeqsUpTo(ScreenClassNames, MaxClasses) : IsInjective(s)}

\* the sorted lists a validated configuration can give: 2 or more classes
SortedClassLists == {s \in ClassLists : Len(s) >= 2}

\* every breakpoint map: its keys in declaration order, each with a width
BreakpointMaps ==
  UNION {{[i \in 1..Len(ks) |-> <<ks[i], ws[i]>>] : ws \in [1..Len(ks) -> Widths]}
         : ks \in ClassLists}

\* ---------------------------------------------------------------- unit fns
\* Array.prototype.indexOf, 0-based, -1 when absent
RECURSIVE indexOfFrom(_, _, _)
indexOfFrom(s, x, i) ==
  IF i > Len(s) THEN -1
  ELSE IF s[i] = x THEN i - 1
  ELSE indexOfFrom(s, x, i + 1)
indexOf(s, x) == indexOfFrom(s, x, 1)

\* Array.prototype.slice(start, end), 0-based, end exclusive, negative from the end
relativeIndex(len, k) == IF k < 0 THEN (IF len + k < 0 THEN 0 ELSE len + k)
                         ELSE (IF k > len THEN len ELSE k)
slice(s, start, end) ==
  LET from == relativeIndex(Len(s), start)
      to == relativeIndex(Len(s), end)
  IN IF to <= from THEN <<>> ELSE SubSeq(s, from + 1, to)
sliceFrom(s, start) == slice(s, start, Len(s))

\* Array.prototype.reverse
reverse(s) == [i \in 1..Len(s) |-> s[Len(s) + 1 - i]]

\* Object.values / Object.entries of a map with string keys: key order
ObjectValues(b) == [i \in 1..Len(b) |-> b[i][2]]
ObjectEntries(b) == b

\* the sign of maxPixelWidth1 - maxPixelWidth2, NaN read as +0
compareWidthsReversed(e1, e2) ==
  LET w1 == e1[2]
      w2 == e2[2]
  IN IF w1.inf /\ w2.inf THEN 0
     ELSE IF w1.inf THEN -1
     ELSE IF w2.inf THEN 1
     ELSE IF w2.h - w1.h > 0 THEN 1 ELSE IF w2.h - w1.h < 0 THEN -1 ELSE 0
compareWidths(e1, e2) ==
  LET w1 == e1[2]
      w2 == e2[2]
  IN IF w1.inf /\ w2.inf THEN 0
     ELSE IF w1.inf THEN 1
     ELSE IF w2.inf THEN -1
     ELSE IF w1.h - w2.h > 0 THEN 1 ELSE IF w1.h - w2.h < 0 THEN -1 ELSE 0

\* Array.prototype.sort with compareWidths: stable, an entry moves in front of
\* the entries that compare greater than it
RECURSIVE insertSorted(_, _)
insertSorted(sorted, e) ==
  IF sorted = <<>> THEN <<e>>
  ELSE IF compareWidths(sorted[Len(sorted)], e) > 0
       THEN Append(insertSorted(SubSeq(sorted, 1, Len(sorted) - 1), e), sorted[Len(sorted)])
       ELSE Append(sorted, e)
RECURSIVE sortEntries(_)
sortEntries(es) ==
  IF es = <<>> THEN <<>>
  ELSE insertSorted(sortEntries(SubSeq(es, 1, Len(es) - 1)), es[Len(es)])

sortBreakpoints(b) == sortEntries(ObjectEntries(b))

getApplicableScreenClassesSwapped(sorted, current, mode) ==
  CASE mode = "desktop-first" -> slice(sorted, 0, indexOf(sorted, current) + 1)
    [] mode = "mobile-first" -> reverse(sliceFrom(sorted, indexOf(sorted, current)))
    [] OTHER -> <<current>>
getApplicableScreenClassesDesktopSkipsCurrent(sorted, current, mode) ==
  CASE mode = "mobile-first" -> slice(sorted, 0, indexOf(sorted, current) + 1)
    [] mode = "desktop-first" -> reverse(sliceFrom(sorted, indexOf(sorted, current) + 1))
    [] OTHER -> <<current>>
getApplicableScreenClassesOffByOne(sorted, current, mode) ==
  CASE mode = "mobile-first" -> slice(sorted, 0, indexOf(sorted, current))
    [] mode = "desktop-first" -> reverse(sliceFrom(sorted, indexOf(sorted, current)))
    [] OTHER -> <<current>>
getApplicableScreenClassesNoReverse(sorted, current, mode) ==
  CASE mode = "mobile-first" -> slice(sorted, 0, indexOf(sorted, current) + 1)
    [] mode = "desktop-first" -> sliceFrom(sorted, indexOf(sorted, current))
    [] OTHER -> <<current>>
\* getApplicableScreenClasses with the switch's cases; nothing in it throws
getApplicableScreenClasses(sorted, current, mode) ==
  CASE mode = "mobile-first" -> slice(sorted, 0, indexOf(sorted, current) + 1)
    [] mode = "desktop-first" -> reverse(sliceFrom(sorted, indexOf(sorted, current)))
    [] OTHER -> <<current>>

\* a configuration option that was left out
Undefined == "undefined"

\* JavaScript values: a record whose field names its kind, so that values of
\* different kinds are unequal.  An object or an array also carries id, the
\* allocation it is: two structures are the same object when they were
\* allocated by the same party ("base", "override", or "new" by a merge).
Str(s) == [str |-> s]
Number(n) == [num |-> n]
Null == [null |-> TRUE]
UndefinedValue == [undefined |-> TRUE]
Boolean(b) == [bool |-> b]
Object(f, id) == [obj |-> f, id |-> id]
Array(items, id) == [arr |-> items, id |-> id]

\* Object.hasOwnProperty.call(o, key) and o[key]
hasOwnProperty(o, key) == key \in DOMAIN o
getProperty(o, key) == IF key \in DOMAIN o THEN o[key] ELSE UndefinedValue

\* { ...base, ...override } of two objects, the override alone otherwise
spread(base, override) ==
  IF "obj" \in DOMAIN base /\ "obj" \in DOMAIN override
  THEN Object([k \in DOMAIN base.obj \cup DOMAIN override.obj |->
                 IF k \in DOMAIN override.obj THEN override.obj[k] ELSE base.obj[k]],
              "new")
  ELSE override
RECURSIVE applyOverridesFromSpread(_, _, _, _)
applyOverridesFromSpread(applicable, i, responsiveValue, overrides) ==
  IF i > Len(applicable) THEN responsiveValue
  ELSE applyOverridesFromSpread(applicable, i + 1,
         IF hasOwnProperty(overrides, applicable[i])
         THEN spread(responsiveValue, getProperty(overrides, applicable[i]))
         ELSE responsiveValue,
         overrides)
RECURSIVE applyOverridesFromFirstWins(_, _, _, _)
applyOverridesFromFirstWins(applicable, i, responsiveValue, overrides) ==
  IF i > Len(applicable) THEN responsiveValue
  ELSE IF hasOwnProperty(overrides, applicable[i])
       THEN getProperty(overrides, applicable[i])
       ELSE applyOverridesFromFirstWins(applicable, i + 1, responsiveValue, overrides)
RECURSIVE applyOverridesFromUnchecked(_, _, _, _)
applyOverridesFromUnchecked(applicable, i, responsiveValue, overrides) ==
  IF i > Len(applicable) THEN responsiveValue
  ELSE applyOverridesFromUnchecked(applicable, i + 1,
         getProperty(overrides, applicable[i]), overrides)
\* applyOverrides: the forEach over applicableScreenClasses, from index i on
RECURSIVE applyOverridesFrom(_, _, _, _)
applyOverridesFrom(applicable, i, responsiveValue, overrides) ==
  IF i > Len(applicable) THEN responsiveValue
  ELSE applyOverridesFrom(applicable, i + 1,
         IF hasOwnProperty(overrides, applicable[i])
         THEN getProperty(overrides, applicable[i])
         ELSE responsiveValue,
         overrides)
applyOverrides(applicable, defaultValue, overrides) ==
  applyOverridesFrom(applicable, 1, defaultValue, overrides)

\* ---------------------------------------------------------------- factory
tooFewKeysOffByOne(values) == Len(values) < 1
\* breakpointValues.length < 2
tooFewKeys(values) == Len(values) < 2

\* breakpointValues.filter((value) => value === Infinity).length !== 1
infinityCount(values) == Cardinality({i \in 1..Len(values) : values[i] = Infinity})
wrongInfinityCountAtLeastOne(values) == infinityCount(values) < 1
wrongInfinityCount(values) == infinityCount(values) # 1

minWidthPxNoGap(sorted, index) ==
  IF index > 1 THEN sorted[index - 1][2] ELSE Num(0)
\* const minWidthPx of the class at position index (1-based) of the sorted breakpoints
minWidthPx(sorted, index) ==
  IF index > 1 THEN plusOne(sorted[index - 1][2]) ELSE Num(0)

\* const constraints of the class at position index: the pushed constraints in order
constraints(sorted, index) ==
  (IF minWidthPx(sorted, index) # Num(0)
   THEN <<[feature |-> "min-width", value |-> minWidthPx(sorted, index)]>>
   ELSE <<>>)
  \o
  (IF sorted[index][2] # Infinity
   THEN <<[feature |-> "max-width", value |-> sorted[index][2]]>>
   ELSE <<>>)

mediaQueriesOf(sorted) ==
  [index \in 1..Len(sorted) |-> <<sorted[index][1], constraints(sorted, index)>>]

\* `(min-width: ${minWidthPx}px)` and constraints.join(' and ')
constraintToString(c) == "(" \o c.feature \o ": " \o numToString(c.value) \o "px)"
RECURSIVE join(_, _)
join(cs, separator) ==
  IF cs = <<>> THEN ""
  ELSE IF Len(cs) = 1 THEN constraintToString(cs[1])
  ELSE constraintToString(cs[1]) \o separator \o join(Tail(cs), separator)
mediaQueryString(cs) == join(cs, " and ")

\* window.matchMedia(mediaQuery).matches in a viewport widthPx pixels wide
matches(cs, widthPx) ==
  \A i \in 1..Len(cs) :
    IF cs[i].feature = "min-width" THEN numGE(Px(widthPx), cs[i].value)
    ELSE numLE(Px(widthPx), cs[i].value)

SystemHooks == {"ScreenClassProvider", "useScreenClass", "useResponsiveValue"}

createResponsiveSystem ==
  /\ status = "unconfigured"
  /\ LET breakpointValues == ObjectValues(breakpoints)
     IN IF tooFewKeys(breakpointValues)
        THEN /\ status' = "error"
             /\ thrown' = "breakpoints must have at least 2 keys"
             /\ UNCHANGED <<sortedBreakpoints, sortedScreenClasses,
                            screenClassMediaQueries, returned>>
        ELSE IF wrongInfinityCount(breakpointValues)
        THEN /\ status' = "error"
             /\ thrown' = "breakpoints must have exactly 1 entry with a value of Infinity"
             /\ UNCHANGED <<sortedBreakpoints, sortedScreenClasses,
                            screenClassMediaQueries, returned>>
        ELSE /\ status' = "created"
             /\ sortedBreakpoints' = sortBreakpoints(breakpoints)
             /\ sortedScreenClasses' =
                  [i \in 1..Len(breakpoints) |-> sortBreakpoints(breakpoints)[i][1]]
             /\ screenClassMediaQueries' = mediaQueriesOf(sortBreakpoints(breakpoints))
             /\ returned' = SystemHooks
             /\ UNCHANGED thrown
  /\ UNCHANGED <<configVars, call, providerVars>>

NoCall == [fn |-> "none", done |-> FALSE]

\* nothing rendered: no provider state, no listener, no content
Nothing == [nothing |-> TRUE]
ProviderNotRendered ==
  /\ pc = "not rendered"
  /\ currentScreenClass = Undefined
  /\ subscribed = {}
  /\ content = Nothing
  /\ viewportWidth = 0
  /\ events = {}
  /\ unsubscribeFns = <<>>
  /\ previousWidth = viewportWidth

Init ==
  /\ breakpoints \in BreakpointMaps
  /\ cascadeMode \in CascadeModes \cup {Undefined}
  /\ status = "unconfigured"
  /\ thrown = "none"
  /\ sortedBreakpoints = <<>>
  /\ sortedScreenClasses = <<>>
  /\ screenClassMediaQueries = <<>>
  /\ returned = {}
  /\ call = NoCall
  /\ initialScreenClass = Undefined
  /\ ProviderNotRendered

Next == createResponsiveSystem

Spec == Init /\ [][Next]_vars

\* ---------------------------------------------------------------- direct calls
\* the exported unit functions called directly, as the unit tests do: the
\* arguments are drawn first, the call then computes the result
Values == {Str("default"), Str("one"), Str("two")}
OverrideSets == UNION {[D -> Values] : D \in SUBSET ScreenClassNames}

\* values that are keyed mappings, one with both fields, two with one field
Keys == {"a", "b"}
MappingValues ==
  {Object([k \in Keys |-> Number(1)], "caller"),
   Object([k \in {"a"} |-> Number(2)], "caller"),
   Object([k \in {"b"} |-> Number(2)], "caller")}
MappingOverrideSets == UNION {[D -> MappingValues] : D \in SUBSET ScreenClassNames}
\* the lists getApplicableScreenClasses can return: no class twice
ApplicableLists == ClassLists

\* the calls not yet made: the arguments, no result yet
PendingCalls ==
  {[fn |-> "getApplicableScreenClasses", done |-> FALSE,
    sortedScreenClasses |-> sorted, currentScreenClass |-> current,
    cascadeMode |-> mode, result |-> <<>>, thrown |-> "none"]
     : sorted \in SortedClassLists, current \in ScreenClassNames,
       mode \in CascadeModes \cup {Undefined}}
  \cup
  {[fn |-> "applyOverrides", done |-> FALSE,
    applicableScreenClasses |-> applicable, defaultValue |-> defaultValue,
    overrides |-> overrides, result |-> UndefinedValue, thrown |-> "none"]
     : applicable \in ApplicableLists, defaultValue \in Values,
       overrides \in OverrideSets}
  \cup
  {[fn |-> "applyOverrides", done |-> FALSE,
    applicableScreenClasses |-> applicable, defaultValue |-> defaultValue,
    overrides |-> overrides, result |-> UndefinedValue, thrown |-> "none"]
     : applicable \in ApplicableLists, defaultValue \in MappingValues,
       overrides \in MappingOverrideSets}

getApplicableScreenClassesCall ==
  /\ call.fn = "getApplicableScreenClasses"
  /\ ~call.done
  /\ call' = [call EXCEPT
                !.done = TRUE,
                !.result = getApplicableScreenClasses(call.sortedScreenClasses,
                             call.currentScreenClass, call.cascadeMode)]
  /\ UNCHANGED <<configVars, systemVars, providerVars>>

applyOverridesCall ==
  /\ call.fn = "applyOverrides"
  /\ ~call.done
  /\ call' = [call EXCEPT
                !.done = TRUE,
                !.result = applyOverrides(call.applicableScreenClasses,
                             call.defaultValue, call.overrides)]
  /\ UNCHANGED <<configVars, systemVars, providerVars>>

InitUnit ==
  /\ breakpoints = <<>>
  /\ cascadeMode = Undefined
  /\ status = "unconfigured"
  /\ thrown = "none"
  /\ sortedBreakpoints = <<>>
  /\ sortedScreenClasses = <<>>
  /\ screenClassMediaQueries = <<>>
  /\ returned = {}
  /\ call \in PendingCalls
  /\ initialScreenClass = Undefined
  /\ ProviderNotRendered

NextUnit == getApplicableScreenClassesCall \/ applyOverridesCall

SpecUnit == InitUnit /\ [][NextUnit]_vars

\* ---------------------------------------------------------------- hooks
\* const { cascadeMode = 'no-cascade' } = screenClassConfiguration
defaultCascadeModeMobileFirst(mode) == IF mode = Undefined THEN "mobile-first" ELSE mode
defaultCascadeMode(mode) == IF mode = Undefined THEN "no-cascade" ELSE mode

\* the maps that pass the validation of createResponsiveSystem
ValidBreakpointMaps ==
  {b \in BreakpointMaps :
     ~tooFewKeys(ObjectValues(b)) /\ ~wrongInfinityCount(ObjectValues(b))}

\* the state createResponsiveSystem leaves when it returns
Created ==
  /\ status = "created"
  /\ thrown = "none"
  /\ sortedBreakpoints = sortBreakpoints(breakpoints)
  /\ sortedScreenClasses =
       [i \in 1..Len(breakpoints) |-> sortBreakpoints(breakpoints)[i][1]]
  /\ screenClassMediaQueries = mediaQueriesOf(sortBreakpoints(breakpoints))
  /\ returned = SystemHooks

contextValueDefaultsToSmallest ==
  IF pc = "not rendered" \/ currentScreenClass = Undefined
  THEN sortedScreenClasses[1]
  ELSE currentScreenClass
\* React.useContext(screenClassContext): the value of the nearest Provider,
\* the context's default null when no Provider is rendered above
contextValue ==
  IF pc = "not rendered" \/ currentScreenClass = Undefined
  THEN "null"
  ELSE currentScreenClass

\* the body of useResponsiveValue for a system with the given sorted classes
\* and cascade mode, under a provider that supplies screenClass
useResponsiveValueIn(sorted, mode, screenClass, defaultValue, overrides) ==
  applyOverrides(getApplicableScreenClasses(sorted, screenClass, mode),
                 defaultValue, overrides)

useResponsiveValue(screenClass, defaultValue, overrides) ==
  useResponsiveValueIn(sortedScreenClasses, defaultCascadeMode(cascadeMode),
                       screenClass, defaultValue, overrides)

\* the overrides of a component: a class's override, when it has one, is the
\* string of its name, as in the test component
HookOverrideSets == {[c \in D |-> Str(c)] : D \in SUBSET ScreenClassNames}

PendingHookCalls ==
  {[fn |-> "useResponsiveValue", done |-> FALSE, defaultValue |-> Str("default"),
    overrides |-> overrides, result |-> UndefinedValue, thrown |-> "none"]
     : overrides \in HookOverrideSets}

\* a component under the provider renders: useScreenClass, then the memoised
\* getApplicableScreenClasses, then applyOverrides
useResponsiveValueCall ==
  /\ call.fn = "useResponsiveValue"
  /\ ~call.done
  /\ IF contextValue = "null"
     THEN call' = [call EXCEPT
                     !.done = TRUE,
                     !.thrown = "useScreenClass may only be used inside of a ScreenClassProvider"]
     ELSE call' = [call EXCEPT
                     !.done = TRUE,
                     !.result = useResponsiveValue(contextValue, call.defaultValue,
                                                   call.overrides)]
  /\ UNCHANGED <<configVars, systemVars, providerVars>>

\* a created system whose provider has rendered with its initial screen class
InitHook ==
  /\ breakpoints \in ValidBreakpointMaps
  /\ cascadeMode \in CascadeModes \cup {Undefined}
  /\ Created
  /\ initialScreenClass \in Range(sortedScreenClasses)
  /\ pc = "first render"
  /\ currentScreenClass = initialScreenClass
  /\ subscribed = {}
  /\ content = Nothing
  /\ viewportWidth = 0
  /\ events = {}
  /\ unsubscribeFns = <<>>
  /\ previousWidth = viewportWidth
  /\ call \in PendingHookCalls

NextHook == useResponsiveValueCall

SpecHook == InitHook /\ [][NextHook]_vars

\* ---------------------------------------------------------------- hooks with and without a provider
PendingScreenClassCalls ==
  {[fn |-> "useScreenClass", done |-> FALSE, result |-> UndefinedValue, thrown |-> "none"]}

\* a component calls useScreenClass: the context's value, or the Error when it is null
useScreenClassCall ==
  /\ call.fn = "useScreenClass"
  /\ ~call.done
  /\ IF contextValue = "null"
     THEN call' = [call EXCEPT
                     !.done = TRUE,
                     !.thrown = "useScreenClass may only be used inside of a ScreenClassProvider"]
     ELSE call' = [call EXCEPT !.done = TRUE, !.result = Str(contextValue)]
  /\ UNCHANGED <<configVars, systemVars, providerVars>>

\* a created system and a component that is about to call one of the hooks,
\* rendered under the system's provider or under no provider at all
InitAnywhere ==
  /\ breakpoints \in ValidBreakpointMaps
  /\ cascadeMode \in CascadeModes \cup {Undefined}
  /\ Created
  /\ initialScreenClass \in Range(sortedScreenClasses)
  /\ \/ pc = "not rendered" /\ currentScreenClass = Undefined
     \/ pc = "first render" /\ currentScreenClass = initialScreenClass
  /\ subscribed = {}
  /\ content = Nothing
  /\ viewportWidth = 0
  /\ events = {}
  /\ unsubscribeFns = <<>>
  /\ previousWidth = viewportWidth
  /\ call \in PendingHookCalls \cup PendingScreenClassCalls

NextAnywhere == useScreenClassCall \/ useResponsiveValueCall

SpecAnywhere == InitAnywhere /\ [][NextAnywhere]_vars

\* ---------------------------------------------------------------- calls on shared arrays
\* The arrays and objects a call can reach, under the names the code has for
\* them.  An argument is the caller's array or object itself, so a method that
\* changes its receiver in place changes what the caller holds.
Memory(sorted, applicable, defaultValue, overrides) ==
  [sortedScreenClasses |-> sorted, applicableScreenClasses |-> applicable,
   defaultValue |-> defaultValue, overrides |-> overrides]

\* Array.prototype.reverse: reverses the receiver in place (and returns it)
reverseInPlace(memory, array) == [memory EXCEPT ![array] = reverse(@)]

\* Array.prototype.slice: a new array, assigned to applicableScreenClasses
sliceInto(memory, start, end) ==
  [memory EXCEPT !.applicableScreenClasses = slice(memory.sortedScreenClasses, start, end)]

getApplicableScreenClassesInReversesSorted(memory, current, mode) ==
  CASE mode = "mobile-first" ->
         sliceInto(memory, 0, indexOf(memory.sortedScreenClasses, current) + 1)
    [] mode = "desktop-first" ->
         LET reversed == reverseInPlace(memory, "sortedScreenClasses")
         IN sliceInto(reversed, 0, indexOf(reversed.sortedScreenClasses, current) + 1)
    [] OTHER -> [memory EXCEPT !.applicableScreenClasses = <<current>>]
\* getApplicableScreenClasses on the caller's sortedScreenClasses: the memory
\* it leaves, the array it returns being applicableScreenClasses
getApplicableScreenClassesIn(memory, current, mode) ==
  CASE mode = "mobile-first" ->
         sliceInto(memory, 0, indexOf(memory.sortedScreenClasses, current) + 1)
    [] mode = "desktop-first" ->
         reverseInPlace(
           sliceInto(memory, indexOf(memory.sortedScreenClasses, current),
                     Len(memory.sortedScreenClasses)),
           "applicableScreenClasses")
    [] OTHER -> [memory EXCEPT !.applicableScreenClasses = <<current>>]

\* applyOverrides on the caller's array, default and overrides: it reads them
\* (forEach, hasOwnProperty, overrides[sc]) and assigns only its own local
applyOverridesIn(memory) ==
  [memory |-> memory,
   result |-> applyOverrides(memory.applicableScreenClasses, memory.defaultValue,
                             memory.overrides)]

\* the memory before a call: the system's array, the caller's default and overrides
memoryNow == [call.memory EXCEPT !.sortedScreenClasses = sortedScreenClasses]

\* a direct call of getApplicableScreenClasses on the system's sorted array
getApplicableScreenClassesAgain ==
  /\ \E current \in ScreenClassNames, mode \in CascadeModes :
       LET after == getApplicableScreenClassesIn(memoryNow, current, mode)
       IN /\ call' = [fn |-> "getApplicableScreenClasses", done |-> TRUE,
                      current |-> current, mode |-> mode, memory |-> after,
                      result |-> after.applicableScreenClasses]
          /\ sortedScreenClasses' = after.sortedScreenClasses
  /\ UNCHANGED <<configVars, status, thrown, sortedBreakpoints, screenClassMediaQueries,
                 returned, providerVars>>

\* a direct call of applyOverrides with some array of classes
applyOverridesAgain ==
  /\ \E applicable \in ApplicableLists :
       LET after == applyOverridesIn([memoryNow EXCEPT !.applicableScreenClasses = applicable])
       IN /\ call' = [fn |-> "applyOverrides", done |-> TRUE,
                      current |-> Undefined, mode |-> Undefined, memory |-> after.memory,
                      result |-> after.result]
          /\ sortedScreenClasses' = after.memory.sortedScreenClasses
  /\ UNCHANGED <<configVars, status, thrown, sortedBreakpoints, screenClassMediaQueries,
                 returned, providerVars>>

\* a component under the provider renders again: useResponsiveValue with the
\* same default and overrides
useResponsiveValueAgain ==
  /\ contextValue # "null"
  /\ LET mode == defaultCascadeMode(cascadeMode)
         after == applyOverridesIn(getApplicableScreenClassesIn(memoryNow, contextValue, mode))
     IN /\ call' = [fn |-> "useResponsiveValue", done |-> TRUE,
                    current |-> contextValue, mode |-> mode, memory |-> after.memory,
                    result |-> after.result]
        /\ sortedScreenClasses' = after.memory.sortedScreenClasses
  /\ UNCHANGED <<configVars, status, thrown, sortedBreakpoints, screenClassMediaQueries,
                 returned, providerVars>>

\* a created system under a rendered provider, and a component's default and
\* overrides; the widths play no part here, so one map for each list of classes
InitAgain ==
  /\ breakpoints \in ValidBreakpointMaps
  /\ cascadeMode \in CascadeModes \cup {Undefined}
  /\ Created
  /\ breakpoints = sortedBreakpoints
  /\ \A i \in 1..(Len(breakpoints) - 1) : breakpoints[i][2] = Num(i)
  /\ initialScreenClass \in Range(sortedScreenClasses)
  /\ pc = "first render"
  /\ currentScreenClass = initialScreenClass
  /\ subscribed = {}
  /\ content = Nothing
  /\ viewportWidth = 0
  /\ events = {}
  /\ unsubscribeFns = <<>>
  /\ previousWidth = viewportWidth
  /\ \E overrides \in HookOverrideSets :
       call = [fn |-> "none", done |-> FALSE, current |-> Undefined, mode |-> Undefined,
               memory |-> Memory(sortedScreenClasses, <<>>, Str("default"), overrides),
               result |-> UndefinedValue]

NextAgain ==
  \/ getApplicableScreenClassesAgain
  \/ applyOverridesAgain
  \/ useResponsiveValueAgain

SpecAgain == InitAgain /\ [][NextAgain]_vars

\* ---------------------------------------------------------------- provider
ViewportWidths == 0..((MaxHalfWidth \div 2) + 2)

matchingClasses(widthPx) ==
  {i \in 1..Len(screenClassMediaQueries) : matches(screenClassMediaQueries[i][2], widthPx)}

\* the component under the provider, as in the integration tests: a default
\* and overrides on two of the classes
ComponentOverrides == [c \in {"xs", "md"} |-> Str(c)]
renderedContentWithoutNullCheck(screenClass) ==
  useResponsiveValue(screenClass, Str("default"), ComponentOverrides)
\* what the provider renders: null without a current screen class, else its
\* children, whose content is the responsive value
renderedContent(screenClass) ==
  IF screenClass = Undefined THEN Nothing
  ELSE useResponsiveValue(screenClass, Str("default"), ComponentOverrides)

subscribeMediaQueriesNoInitialCheck(current, i, widthPx) == current
\* subscribeMediaQueries' forEach from query i on: onChange(screenClass), which
\* is setCurrentScreenClass, for every media query that matches at once
RECURSIVE subscribeMediaQueriesFrom(_, _, _)
subscribeMediaQueriesFrom(current, i, widthPx) ==
  IF i > Len(screenClassMediaQueries) THEN current
  ELSE subscribeMediaQueriesFrom(
         IF matches(screenClassMediaQueries[i][2], widthPx)
         THEN screenClassMediaQueries[i][1]
         ELSE current,
         i + 1, widthPx)

\* ReactDOMServer.renderToString: the provider's body runs once, effects do not
renderToString ==
  /\ pc = "not rendered"
  /\ pc' = "server rendered"
  /\ currentScreenClass' = initialScreenClass
  /\ content' = renderedContent(initialScreenClass)
  /\ UNCHANGED <<configVars, systemVars, call, subscribed, viewportWidth, events, unsubscribeFns,
                 previousWidth>>

\* ScreenClassProvider's first render on the client (render or hydrate):
\* useState(initialScreenClass); the effect is only scheduled
ScreenClassProviderFirstRender ==
  /\ pc \in {"not rendered", "server rendered"}
  /\ pc' = "first render"
  /\ currentScreenClass' = initialScreenClass
  /\ content' = renderedContent(initialScreenClass)
  /\ UNCHANGED <<configVars, systemVars, call, subscribed, viewportWidth, events, unsubscribeFns,
                 previousWidth>>

\* the callback of useEffect / useLayoutEffect: subscribeMediaQueries with
\* onChange = setCurrentScreenClass; the content is that of the last render
ScreenClassProviderEffect ==
  /\ pc = "first render"
  /\ pc' = "effect ran"
  /\ currentScreenClass' = subscribeMediaQueriesFrom(currentScreenClass, 1, viewportWidth)
  /\ subscribed' = {screenClassMediaQueries[i][1] : i \in 1..Len(screenClassMediaQueries)}
  /\ unsubscribeFns' = [i \in 1..Len(screenClassMediaQueries) |-> screenClassMediaQueries[i][1]]
  /\ UNCHANGED <<configVars, systemVars, call, content, viewportWidth, events,
                 previousWidth>>

\* the render that follows the state set in the effect
ScreenClassProviderRerender ==
  /\ pc = "effect ran"
  /\ pc' = "rendered"
  /\ content' = renderedContent(currentScreenClass)
  /\ UNCHANGED <<configVars, systemVars, call, currentScreenClass, subscribed, viewportWidth,
                 events, unsubscribeFns, previousWidth>>

\* a created system, with or without an initial screen class, in a viewport
InitProvider ==
  /\ breakpoints \in ValidBreakpointMaps
  /\ cascadeMode \in CascadeModes \cup {Undefined}
  /\ Created
  /\ initialScreenClass \in Range(sortedScreenClasses) \cup {Undefined}
  /\ pc = "not rendered"
  /\ currentScreenClass = Undefined
  /\ subscribed = {}
  /\ content = Nothing
  /\ viewportWidth \in ViewportWidths
  /\ events = {}
  /\ unsubscribeFns = <<>>
  /\ previousWidth = viewportWidth
  /\ call = NoCall

NextProvider ==
  \/ renderToString
  \/ ScreenClassProviderFirstRender
  \/ ScreenClassProviderEffect
  \/ ScreenClassProviderRerender

SpecProvider == InitProvider /\ [][NextProvider]_vars

\* ---------------------------------------------------------------- media-query changes
changedQueriesEveryQuery(from, to) == 1..Len(screenClassMediaQueries)
\* the MediaQueryLists whose matches differs between two viewport widths: a
\* 'change' event is what the listeners are added for, and the browser
\* dispatches one to each of these lists and to no other
changedQueries(from, to) ==
  {i \in 1..Len(screenClassMediaQueries) :
     matches(screenClassMediaQueries[i][2], from) # matches(screenClassMediaQueries[i][2], to)}

\* the MediaQueryListEvent of each of them: whose list it is, and event.matches
changeEvents(from, to) ==
  {[screenClass |-> screenClassMediaQueries[i][1],
    matches |-> matches(screenClassMediaQueries[i][2], to)] : i \in changedQueries(from, to)}

\* the window of a mounted (or once mounted) provider is resized to another
\* whole number of pixels; the events of one change are all dispatched before
\* the next change is evaluated
resize ==
  /\ pc \in {"effect ran", "rendered", "unmounted"}
  /\ events = {}
  /\ \E w \in ViewportWidths \ {viewportWidth}:
       /\ viewportWidth' = w
       /\ previousWidth' = viewportWidth
       /\ events' = changeEvents(viewportWidth, w)
  /\ UNCHANGED <<configVars, systemVars, call, pc, currentScreenClass, subscribed, content,
                 unsubscribeFns>>

listenerIgnoresMatches(current, event) == event.screenClass
listenerOnLeave(current, event) ==
  IF ~event.matches THEN event.screenClass ELSE current
\* const listener: onChange(screenClass), which is setCurrentScreenClass, when
\* event.matches; the state it leaves
listener(current, event) ==
  IF event.matches THEN event.screenClass ELSE current

\* one of the pending events is dispatched to its MediaQueryList, whose
\* listener runs if it is still there; a state that was set is rendered
dispatchEvent ==
  /\ \E event \in events:
       /\ events' = events \ {event}
       /\ IF event.screenClass \in subscribed
          THEN /\ currentScreenClass' = listener(currentScreenClass, event)
               /\ content' = IF pc = "unmounted" THEN Nothing
                             ELSE renderedContent(currentScreenClass')
          ELSE UNCHANGED <<currentScreenClass, content>>
  /\ UNCHANGED <<configVars, systemVars, call, pc, subscribed, viewportWidth, unsubscribeFns,
                 previousWidth>>

unsubscribeLastOnly(listeners) ==
  listeners \ {unsubscribeFns[Len(unsubscribeFns)]}
\* the function subscribeMediaQueries returns: unsubscribeFns.forEach((fn) => fn()),
\* each fn removing the listener from the MediaQueryList it closed over
RECURSIVE unsubscribeFrom(_, _)
unsubscribeFrom(listeners, i) ==
  IF i > Len(unsubscribeFns) THEN listeners
  ELSE unsubscribeFrom(listeners \ {unsubscribeFns[i]}, i + 1)

unsubscribe(listeners) == unsubscribeFrom(listeners, 1)

\* the provider is unmounted: React runs the cleanup the effect returned
unmount ==
  /\ pc \in {"effect ran", "rendered"}
  /\ pc' = "unmounted"
  /\ subscribed' = unsubscribe(subscribed)
  /\ content' = Nothing
  /\ UNCHANGED <<configVars, systemVars, call, currentScreenClass, viewportWidth, events,
                 unsubscribeFns, previousWidth>>

\* as InitProvider, for the maps declared smallest first and the two cascades
InitEvents ==
  /\ InitProvider
  /\ breakpoints = sortedBreakpoints
  /\ cascadeMode \in {Undefined, "desktop-first"}

NextEvents ==
  \/ renderToString
  \/ ScreenClassProviderFirstRender
  \/ ScreenClassProviderEffect
  \/ ScreenClassProviderRerender
  \/ resize
  \/ dispatchEvent
  \/ unmount

SpecEvents == InitEvents /\ [][NextEvents]_vars

\* ---------------------------------------------------------------- merge
\* src/merge.ts on top of the deepmerge package (4.2.2 and later, where a key
\* is looked up in the target with a guarded `in`).  Keys that Object.prototype
\* also has, which deepmerge skips, and array holes are not modelled.
EmptyObject == [k \in {} |-> Null]
isArray(v) == "arr" \in DOMAIN v
isMergeableObject(v) == "obj" \in DOMAIN v \/ "arr" \in DOMAIN v
emptyTarget(v) == IF isArray(v) THEN Array(<<>>, "new") ELSE Object(EmptyObject, "new")
ownKeys(v) == IF "obj" \in DOMAIN v THEN DOMAIN v.obj ELSE {}
propertyIsOnObject(target, key) == key \in ownKeys(target)
itemAt(array, i) == IF i <= Len(array.arr) THEN array.arr[i] ELSE UndefinedValue
MaxOf(m, n) == IF m >= n THEN m ELSE n

RECURSIVE deepMerge(_, _)
RECURSIVE mergeObject(_, _)
RECURSIVE mergeArrays(_, _)
RECURSIVE mergeTwo(_, _)
RECURSIVE cloneUnlessOtherwiseSpecified(_)

\* deepmerge's cloneUnlessOtherwiseSpecified: a copy of a mergeable value
cloneUnlessOtherwiseSpecified(value) ==
  IF isMergeableObject(value)
  THEN deepMerge(emptyTarget(value), value)
  ELSE value

mergeObjectShallow(target, source) ==
  Object([key \in ownKeys(target) \cup ownKeys(source) |->
            IF key \in ownKeys(source)
            THEN cloneUnlessOtherwiseSpecified(source.obj[key])
            ELSE cloneUnlessOtherwiseSpecified(target.obj[key])],
         "new")
\* deepmerge's mergeObject: destination = {}, the target's keys cloned into it,
\* then the source's keys on top
mergeObject(target, source) ==
  Object([key \in ownKeys(target) \cup ownKeys(source) |->
            IF key \in ownKeys(source)
            THEN IF propertyIsOnObject(target, key) /\ isMergeableObject(source.obj[key])
                 THEN deepMerge(target.obj[key], source.obj[key])
                 ELSE cloneUnlessOtherwiseSpecified(source.obj[key])
            ELSE cloneUnlessOtherwiseSpecified(target.obj[key])],
         "new")

mergeArraysOverrideLength(base, override) ==
  Array([index \in 1..Len(override.arr) |->
           IF isMergeableObject(override.arr[index])
           THEN mergeTwo(itemAt(base, index), override.arr[index])
           ELSE cloneUnlessOtherwiseSpecified(override.arr[index])],
        "new")
mergeArraysKeepsBase(base, override) ==
  Array([index \in 1..MaxOf(Len(base.arr), Len(override.arr)) |->
           IF index <= Len(override.arr)
           THEN IF isMergeableObject(override.arr[index])
                THEN mergeTwo(itemAt(base, index), override.arr[index])
                ELSE IF isMergeableObject(itemAt(base, index))
                     THEN base.arr[index]
                     ELSE cloneUnlessOtherwiseSpecified(override.arr[index])
           ELSE base.arr[index]],
        "new")
\* mergeArrays: final = [...base], a new array holding the base's items
\* themselves, then every index of the override is assigned
mergeArrays(base, override) ==
  Array([index \in 1..MaxOf(Len(base.arr), Len(override.arr)) |->
           IF index <= Len(override.arr)
           THEN IF isMergeableObject(override.arr[index])
                THEN mergeTwo(itemAt(base, index), override.arr[index])
                ELSE cloneUnlessOtherwiseSpecified(override.arr[index])
           ELSE base.arr[index]],
        "new")

\* deepmerge(target, source, { arrayMerge: mergeArrays })
deepMerge(target, source) ==
  IF isArray(source) # isArray(target)
  THEN cloneUnlessOtherwiseSpecified(source)
  ELSE IF isArray(source)
       THEN mergeArrays(target, source)
       ELSE mergeObject(target, source)

mergeTwo(base, override) == deepMerge(base, override)

\* deepMerge.all: propsObjects.reduce((prev, next) => deepmerge(prev, next), {})
RECURSIVE mergeFrom(_, _, _)
mergeFrom(propsObjects, i, prev) ==
  IF i > Len(propsObjects) THEN prev
  ELSE mergeFrom(propsObjects, i + 1, deepMerge(prev, propsObjects[i]))
mergeFromFirst(propsObjects) ==
  IF propsObjects = <<>> THEN Object(EmptyObject, "new")
  ELSE mergeFrom(propsObjects, 2, propsObjects[1])
merge(propsObjects) == mergeFrom(propsObjects, 1, Object(EmptyObject, "new"))

\* the value without the allocation ids: what toStrictEqual compares
RECURSIVE plain(_)
plain(v) ==
  IF "obj" \in DOMAIN v THEN Object([k \in DOMAIN v.obj |-> plain(v.obj[k])], "")
  ELSE IF "arr" \in DOMAIN v THEN Array([i \in 1..Len(v.arr) |-> plain(v.arr[i])], "")
  ELSE v

\* the allocation ids of the objects and arrays inside a value, itself included
RECURSIVE idsIn(_)
idsIn(v) ==
  IF "obj" \in DOMAIN v THEN {v.id} \cup UNION {idsIn(v.obj[k]) : k \in DOMAIN v.obj}
  ELSE IF "arr" \in DOMAIN v THEN {v.id} \cup UNION {idsIn(v.arr[i]) : i \in 1..Len(v.arr)}
  ELSE {}

\* omit.ts: a new object with the keys that are not omitted
omit(obj, omittedKeys) ==
  Object([key \in DOMAIN obj.obj \ Range(omittedKeys) |-> obj.obj[key]], "new")

\* index.tsx: the classes whose overrides apply, in the order they are applied
getMobileFirstScreenClasses(sorted, breakpoint) ==
  slice(sorted, 0, indexOf(sorted, breakpoint) + 1)
getDesktopFirstScreenClasses(sorted, breakpoint) ==
  reverse(sliceFrom(sorted, indexOf(sorted, breakpoint)))

\* props[sc] ?? {}
orEmptyObject(v) == IF v = Null \/ v = UndefinedValue THEN Object(EmptyObject, "new") ELSE v

\* index.tsx useResponsiveProps inside a provider
useResponsiveProps(sorted, mode, screenClass, props) ==
  LET baseProps == omit(props, sorted)
      applicableScreenClasses ==
        CASE mode = "mobile-first" -> getMobileFirstScreenClasses(sorted, screenClass)
          [] mode = "desktop-first" -> getDesktopFirstScreenClasses(sorted, screenClass)
          [] OTHER -> <<screenClass>>
      propsToMerge ==
        <<baseProps>> \o [i \in 1..Len(applicableScreenClasses) |->
                            orEmptyObject(getProperty(props.obj, applicableScreenClasses[i]))]
  IN merge(propsToMerge)

\* ---------------------------------------------------------------- merge calls
MaxArrayLen == 2
MaxPropsObjects == 3

One(key, v) == [k \in {key} |-> v]
PartialMaps(K, V) == UNION {[D -> V] : D \in SUBSET K}

\* the values a caller builds, marked with n to tell which argument they came
\* from: the base's object has both keys, the override's has one of them
ObjectItemOf(n) ==
  IF n = 1 THEN Object([k \in Keys |-> Number(n)], "caller")
  ELSE Object(One("a", Number(n)), "caller")
ItemsOf(n) == {Number(n), Null, ObjectItemOf(n), Array(<<Number(n)>>, "caller")}
ArraysOf(n) == {Array(items, "caller") : items \in SeqsUpTo(ItemsOf(n), MaxArrayLen)}
ObjectsOf(n) == {Object(f, "caller") : f \in PartialMaps(Keys, ItemsOf(n))}
ValuesOf(n) == ItemsOf(n) \cup ArraysOf(n) \cup ObjectsOf(n) \cup {UndefinedValue}

\* { a: value } or {}: the shape the merge tests use, { array: [...] }
NestedPropsOf(n) == {Object(f, "caller") : f \in PartialMaps({"a"}, ValuesOf(n))}
NestedPropsLists == {<<base, override>> : base \in NestedPropsOf(1), override \in NestedPropsOf(2)}

\* flat props objects: the i-th object of a list holds i or a one-field object
\* of i, whose field alternates along the list
FlatPropsOf(i) ==
  {Object(f, "caller") :
     f \in PartialMaps(Keys, {Number(i),
                               Object(One(IF i % 2 = 1 THEN "a" ELSE "b", Number(i)), "caller")})}
RECURSIVE FlatPropsListsOfLen(_)
FlatPropsListsOfLen(n) ==
  IF n = 0 THEN {<<>>}
  ELSE {Append(l, p) : l \in FlatPropsListsOfLen(n - 1), p \in FlatPropsOf(n)}
FlatPropsLists == UNION {FlatPropsListsOfLen(n) : n \in 0..MaxPropsObjects}

\* responsive props: base props under Keys, overrides under the screen classes
ClassOverridesOf(c) ==
  {Null, Object(One("a", Str(c)), "caller"), Object(One("b", Str(c)), "caller")}
ResponsivePropsSet ==
  {Object([k \in DOMAIN f \cup DOMAIN g |-> IF k \in DOMAIN f THEN f[k] ELSE g[k]], "caller") :
     f \in PartialMaps({"a"}, {Str("base")}),
     g \in UNION {{h \in [D -> UNION {ClassOverridesOf(c) : c \in D}] :
                     \A c \in D : h[c] \in ClassOverridesOf(c)} :
                  D \in SUBSET ScreenClassNames}}

PendingMergeCalls ==
  {[fn |-> "merge", done |-> FALSE, propsObjects |-> propsObjects,
    result |-> UndefinedValue, thrown |-> "none"]
     : propsObjects \in NestedPropsLists \cup FlatPropsLists}
  \cup
  {[fn |-> "useResponsiveProps", done |-> FALSE,
    sortedScreenClasses |-> sorted, cascadeMode |-> mode,
    currentScreenClass |-> current, props |-> props,
    result |-> UndefinedValue, thrown |-> "none"]
     : sorted \in SortedClassLists, mode \in CascadeModes \cup {Undefined},
       current \in ScreenClassNames \cup {Undefined}, props \in ResponsivePropsSet}

mergeCall ==
  /\ call.fn = "merge"
  /\ ~call.done
  /\ call' = [call EXCEPT !.done = TRUE, !.result = merge(call.propsObjects)]
  /\ UNCHANGED <<configVars, systemVars, providerVars>>

\* index.tsx useResponsiveProps (development build): throws outside a provider
useResponsivePropsCall ==
  /\ call.fn = "useResponsiveProps"
  /\ ~call.done
  /\ IF call.currentScreenClass = Undefined
     THEN call' = [call EXCEPT
                     !.done = TRUE,
                     !.thrown = "useResponsiveProps may only be used inside of a ScreenClassProvider"]
     ELSE call' = [call EXCEPT
                     !.done = TRUE,
                     !.result = useResponsiveProps(call.sortedScreenClasses,
                                  defaultCascadeMode(call.cascadeMode),
                                  call.currentScreenClass, call.props)]
  /\ UNCHANGED <<configVars, systemVars, providerVars>>

InitMerge ==
  /\ breakpoints = <<>>
  /\ cascadeMode = Undefined
  /\ status = "unconfigured"
  /\ thrown = "none"
  /\ sortedBreakpoints = <<>>
  /\ sortedScreenClasses = <<>>
  /\ screenClassMediaQueries = <<>>
  /\ returned = {}
  /\ call \in PendingMergeCalls
  /\ initialScreenClass = Undefined
  /\ ProviderNotRendered

NextMerge == mergeCall \/ useResponsivePropsCall

SpecMerge == InitMerge /\ [][NextMerge]_vars

\* ---------------------------------------------------------------- sort with a 1-or-0 comparator
\* index.tsx: maxPixelWidth1 > maxPixelWidth2 ? 1 : 0
compareGreaterOrZero(e1, e2) == IF ~numLE(e1[2], e2[2]) THEN 1 ELSE 0
\* the version with directives: maxPixelWidth1 < maxPixelWidth2 ? 1 : 0
compareLessOrZero(e1, e2) == IF ~numGE(e1[2], e2[2]) THEN 1 ELSE 0

comparefn(comparator, e1, e2) ==
  CASE comparator = "greater ? 1 : 0" -> compareGreaterOrZero(e1, e2)
    [] comparator = "less ? 1 : 0" -> compareLessOrZero(e1, e2)
    [] OTHER -> compareWidths(e1, e2)

\* Neither comparator is a consistent comparison function (it answers 0 for a
\* pair and 1 for the same pair swapped), and for such a comparator the order
\* Array.prototype.sort leaves is up to the engine.  The engines that run this
\* code sort short arrays in one of two ways: insertion sort, which moves an
\* element in front of those that compare greater than it (V8 before 7.0; the
\* merge sorts of SpiderMonkey and JavaScriptCore take the same decisions),
\* and TimSort, which looks for comparisons below zero (V8 from 7.0).
ArraySortEngines == {"insertion sort", "TimSort"}

RECURSIVE insertWhereGreater(_, _, _)
insertWhereGreater(comparator, sorted, e) ==
  IF sorted = <<>> THEN <<e>>
  ELSE IF comparefn(comparator, sorted[Len(sorted)], e) > 0
       THEN Append(insertWhereGreater(comparator, SubSeq(sorted, 1, Len(sorted) - 1), e),
                   sorted[Len(sorted)])
       ELSE Append(sorted, e)
RECURSIVE insertionSort(_, _)
insertionSort(comparator, es) ==
  IF es = <<>> THEN <<>>
  ELSE insertWhereGreater(comparator, insertionSort(comparator, SubSeq(es, 1, Len(es) - 1)),
                          es[Len(es)])

\* TimSort's CountAndMakeRun: the length of the run the array starts with,
\* looked for from index i on; the run is descending if its second element
\* compares below its first
RECURSIVE runLengthFrom(_, _, _, _)
runLengthFrom(comparator, es, i, isDescending) ==
  IF i > Len(es) THEN Len(es)
  ELSE LET order == comparefn(comparator, es[i], es[i - 1])
       IN IF (isDescending /\ order >= 0) \/ (~isDescending /\ order < 0)
          THEN i - 1
          ELSE runLengthFrom(comparator, es, i + 1, isDescending)

\* TimSort's BinaryInsertionSort: where the pivot goes in es[left..right-1]
RECURSIVE binarySearch(_, _, _, _, _)
binarySearch(comparator, es, pivot, left, right) ==
  IF left >= right THEN left
  ELSE LET mid == left + ((right - left) \div 2)
       IN IF comparefn(comparator, pivot, es[mid]) < 0
          THEN binarySearch(comparator, es, pivot, left, mid)
          ELSE binarySearch(comparator, es, pivot, mid + 1, right)
RECURSIVE binaryInsertionSort(_, _, _)
binaryInsertionSort(comparator, es, start) ==
  IF start > Len(es) THEN es
  ELSE LET pivot == es[start]
           left == binarySearch(comparator, es, pivot, 1, start)
       IN binaryInsertionSort(comparator,
            SubSeq(es, 1, left - 1) \o <<pivot>> \o SubSeq(es, left, start - 1)
              \o SubSeq(es, start + 1, Len(es)),
            start + 1)

\* TimSort of an array shorter than a minimal run: make the first run
\* ascending, then insert the rest
timSort(comparator, es) ==
  IF Len(es) < 2 THEN es
  ELSE LET isDescending == comparefn(comparator, es[2], es[1]) < 0
           runLength == runLengthFrom(comparator, es, 3, isDescending)
           run == IF isDescending
                  THEN reverse(SubSeq(es, 1, runLength)) \o SubSeq(es, runLength + 1, Len(es))
                  ELSE es
       IN binaryInsertionSort(comparator, run, runLength + 1)

\* Array.prototype.sort(comparefn) as the engine does it
ArraySort(engine, comparator, es) ==
  IF engine = "TimSort" THEN timSort(comparator, es) ELSE insertionSort(comparator, es)

\* index.tsx: const sortedScreenClassBreakpoints
sortedScreenClassBreakpointsOf(engine, b) ==
  ArraySort(engine, "greater ? 1 : 0", ObjectEntries(b))

\* the calls of the functions over sortedScreenClasses that are yet to be
\* made, and the engine the system is created and called in
PendingSortedCalls ==
  {[fn |-> fn, done |-> FALSE, engine |-> engine, breakpoint |-> breakpoint, result |-> <<>>]
     : fn \in {"getMobileFirstScreenClasses", "getDesktopFirstScreenClasses"},
       engine \in ArraySortEngines, breakpoint \in ScreenClassNames}

\* index.tsx createResponsiveSystem (development build): validation, then the sort
createResponsiveSystemWithProps ==
  /\ status = "unconfigured"
  /\ call.fn \in {"getMobileFirstScreenClasses", "getDesktopFirstScreenClasses"}
  /\ LET values == ObjectValues(breakpoints)
     IN IF tooFewKeys(values)
        THEN /\ status' = "error"
             /\ thrown' = "breakpoints must have at least 2 keys"
             /\ UNCHANGED <<sortedBreakpoints, sortedScreenClasses>>
        ELSE IF wrongInfinityCount(values)
        THEN /\ status' = "error"
             /\ thrown' = "breakpoints must have exactly 1 entry with a value of Infinity"
             /\ UNCHANGED <<sortedBreakpoints, sortedScreenClasses>>
        ELSE /\ status' = "created"
             /\ sortedBreakpoints' = sortedScreenClassBreakpointsOf(call.engine, breakpoints)
             /\ sortedScreenClasses' =
                  [i \in 1..Len(breakpoints) |->
                     sortedScreenClassBreakpointsOf(call.engine, breakpoints)[i][1]]
             /\ UNCHANGED thrown
  /\ UNCHANGED <<configVars, screenClassMediaQueries, returned, call, providerVars>>

\* useResponsiveProps asks for the classes to apply under the current class
getMobileFirstScreenClassesCall ==
  /\ status = "created"
  /\ call.fn = "getMobileFirstScreenClasses"
  /\ ~call.done
  /\ call' = [call EXCEPT
                !.done = TRUE,
                !.result = getMobileFirstScreenClasses(sortedScreenClasses, call.breakpoint)]
  /\ UNCHANGED <<configVars, systemVars, providerVars>>

getDesktopFirstScreenClassesCall ==
  /\ status = "created"
  /\ call.fn = "getDesktopFirstScreenClasses"
  /\ ~call.done
  /\ call' = [call EXCEPT
                !.done = TRUE,
                !.result = getDesktopFirstScreenClasses(sortedScreenClasses, call.breakpoint)]
  /\ UNCHANGED <<configVars, systemVars, providerVars>>

InitSorted ==
  /\ breakpoints \in BreakpointMaps
  /\ cascadeMode \in {"mobile-first", "desktop-first"}
  /\ status = "unconfigured"
  /\ thrown = "none"
  /\ sortedBreakpoints = <<>>
  /\ sortedScreenClasses = <<>>
  /\ screenClassMediaQueries = <<>>
  /\ returned = {}
  /\ call \in PendingSortedCalls
  /\ call.fn = (IF cascadeMode = "mobile-first" THEN "getMobileFirstScreenClasses"
                ELSE "getDesktopFirstScreenClasses")
  /\ initialScreenClass = Undefined
  /\ ProviderNotRendered

NextSorted ==
  \/ createResponsiveSystemWithProps
  \/ getMobileFirstScreenClassesCall
  \/ getDesktopFirstScreenClassesCall

SpecSorted == InitSorted /\ [][NextSorted]_vars

\* ---------------------------------------------------------------- andSmaller / andLarger directives
\* the version with directives: const sortedScreenClasses
sortedScreenClassesWithDirectives(engine, b) ==
  [i \in 1..Len(b) |-> ArraySort(engine, "less ? 1 : 0", ObjectEntries(b))[i][1]]

\* screenClassProps.andSmaller === true, screenClassProps.andLarger === true
setsDirective(screenClassProps, directive) ==
  /\ screenClassProps # UndefinedValue
  /\ getProperty(screenClassProps.obj, directive) = Boolean(TRUE)

BothDirectivesError ==
  "andSmaller and andLarger should not both be set for a single ScreenClass"
ConflictingDirectivesError ==
  "We've detected conflicting andLarger and andSmaller directives"

\* the first loop of the validation, over sortedScreenClasses from index i on
RECURSIVE validateSmallToLarge(_, _, _, _)
validateSmallToLarge(sorted, i, props, largerDirectiveAdded) ==
  IF i > Len(sorted) THEN "none"
  ELSE LET screenClassProps == getProperty(props.obj, sorted[i])
       IN IF screenClassProps = UndefinedValue
          THEN validateSmallToLarge(sorted, i + 1, props, largerDirectiveAdded)
          ELSE IF /\ setsDirective(screenClassProps, "andSmaller")
                  /\ setsDirective(screenClassProps, "andLarger")
          THEN BothDirectivesError
          ELSE IF /\ setsDirective(screenClassProps, "andSmaller")
                  /\ largerDirectiveAdded # Undefined
          THEN ConflictingDirectivesError
          ELSE validateSmallToLarge(sorted, i + 1, props,
                 IF setsDirective(screenClassProps, "andLarger") THEN sorted[i]
                 ELSE largerDirectiveAdded)

\* the second loop, over the reversed clone of sortedScreenClasses
RECURSIVE validateLargeToSmall(_, _, _, _)
validateLargeToSmall(reversed, i, props, smallerDirectiveAdded) ==
  IF i > Len(reversed) THEN "none"
  ELSE LET screenClassProps == getProperty(props.obj, reversed[i])
       IN IF screenClassProps = UndefinedValue
          THEN validateLargeToSmall(reversed, i + 1, props, smallerDirectiveAdded)
          ELSE IF /\ setsDirective(screenClassProps, "andLarger")
                  /\ smallerDirectiveAdded # Undefined
          THEN ConflictingDirectivesError
          ELSE validateLargeToSmall(reversed, i + 1, props,
                 IF setsDirective(screenClassProps, "andSmaller") THEN reversed[i]
                 ELSE smallerDirectiveAdded)

\* the validation of the development build: the Error it throws, or "none"
validateDirectives(sorted, props) ==
  LET first == validateSmallToLarge(sorted, 1, props, Undefined)
  IN IF first # "none" THEN first
     ELSE validateLargeToSmall(reverse(sorted), 1, props, Undefined)

\* a forEach of the determination: the props of the classes that set the
\* directive are spread over finalProps, from class i of the list on
RECURSIVE applyDirectives(_, _, _, _, _)
applyDirectives(classes, i, props, directive, finalProps) ==
  IF i > Len(classes) THEN finalProps
  ELSE LET screenClassProps == getProperty(props.obj, classes[i])
       IN applyDirectives(classes, i + 1, props, directive,
            IF setsDirective(screenClassProps, directive)
            THEN spread(finalProps, omit(screenClassProps, <<"andSmaller", "andLarger">>))
            ELSE finalProps)

\* the determination of the props for the current screen class
determineProps(sorted, current, props) ==
  LET currentScreenClassIndex == indexOf(sorted, current)
      andLargerApplied ==
        applyDirectives(slice(sorted, 0, currentScreenClassIndex), 1, props, "andLarger",
                        omit(props, sorted))
      andSmallerApplied ==
        applyDirectives(reverse(sliceFrom(sorted, currentScreenClassIndex + 1)), 1, props,
                        "andSmaller", andLargerApplied)
      exactScreenClassProps ==
        IF getProperty(props.obj, current) # UndefinedValue
        THEN omit(getProperty(props.obj, current), <<"andSmaller", "andLarger">>)
        ELSE Object(EmptyObject, "new")
  IN spread(andSmallerApplied, exactScreenClassProps)

\* what a component passes for a class: nothing, or an object with a
\* buttonSize, with or without a buttonText, and with its directives
DirectiveOptions ==
  {"absent", "own", "andSmaller", "andLarger", "both", "andSmaller text", "andLarger text"}
directiveFields(option) ==
  CASE option \in {"andSmaller", "andSmaller text"} -> {"andSmaller"}
    [] option \in {"andLarger", "andLarger text"} -> {"andLarger"}
    [] option = "both" -> {"andSmaller", "andLarger"}
    [] OTHER -> {}
propFields(option) ==
  IF option \in {"andSmaller text", "andLarger text"} THEN {"buttonSize", "buttonText"}
  ELSE {"buttonSize"}
screenClassPropsOf(screenClass, option) ==
  Object([k \in directiveFields(option) \cup propFields(option) |->
            IF k \in {"andSmaller", "andLarger"} THEN Boolean(TRUE)
            ELSE Str(screenClass \o " " \o k)],
         "caller")
propsWithDirectives(options) ==
  Object([k \in {"buttonText"} \cup {c \in ScreenClassNames : options[c] # "absent"} |->
            IF k = "buttonText" THEN Str("default buttonText")
            ELSE screenClassPropsOf(k, options[k])],
         "caller")

\* the maps with the widths 1, 2, ... and Infinity, in every declared key order
DirectiveBreakpointMaps ==
  {b \in ValidBreakpointMaps :
     \A i \in 1..Len(b) :
       sortBreakpoints(b)[i][2] = IF i = Len(b) THEN Infinity ELSE Px(i)}

PendingDirectiveCalls ==
  {[fn |-> "useResponsiveProps", done |-> FALSE, engine |-> engine,
    currentScreenClass |-> current, props |-> propsWithDirectives(options),
    result |-> UndefinedValue, thrown |-> "none"]
     : engine \in ArraySortEngines, current \in ScreenClassNames \cup {Undefined},
       options \in [ScreenClassNames -> DirectiveOptions]}

\* createScreenClassProvider of the version with directives (development
\* build): validation, then the sort
createScreenClassProvider ==
  /\ status = "unconfigured"
  /\ call.fn = "useResponsiveProps"
  /\ LET values == ObjectValues(breakpoints)
     IN IF tooFewKeys(values)
        THEN /\ status' = "error"
             /\ thrown' = "breakpoints must have at least 2 keys"
             /\ UNCHANGED <<sortedBreakpoints, sortedScreenClasses>>
        ELSE IF wrongInfinityCount(values)
        THEN /\ status' = "error"
             /\ thrown' = "breakpoints must have exactly 1 entry with a value of Infinity"
             /\ UNCHANGED <<sortedBreakpoints, sortedScreenClasses>>
        ELSE /\ status' = "created"
             /\ sortedBreakpoints' = ArraySort(call.engine, "less ? 1 : 0", ObjectEntries(breakpoints))
             /\ sortedScreenClasses' = sortedScreenClassesWithDirectives(call.engine, breakpoints)
             /\ UNCHANGED thrown
  /\ UNCHANGED <<configVars, screenClassMediaQueries, returned, call, providerVars>>

\* useResponsiveProps of the version with directives (development build)
useResponsivePropsWithDirectivesCall ==
  /\ status = "created"
  /\ call.fn = "useResponsiveProps"
  /\ ~call.done
  /\ IF call.currentScreenClass = Undefined
     THEN call' = [call EXCEPT
                     !.done = TRUE,
                     !.thrown = "useResponsiveProps may only be used inside of a ScreenClassProvider"]
     ELSE LET error == validateDirectives(sortedScreenClasses, call.props)
          IN IF error # "none"
             THEN call' = [call EXCEPT !.done = TRUE, !.thrown = error]
             ELSE call' = [call EXCEPT
                             !.done = TRUE,
                             !.result = determineProps(sortedScreenClasses,
                                                       call.currentScreenClass, call.props)]
  /\ UNCHANGED <<configVars, systemVars, providerVars>>

\* a component about to call useResponsiveProps under a provider that supplies
\* one of the map's classes, or under none
InitDirectives ==
  /\ breakpoints \in DirectiveBreakpointMaps \cup {<<<<"xs", Infinity>>>>}
  /\ cascadeMode = Undefined
  /\ status = "unconfigured"
  /\ thrown = "none"
  /\ sortedBreakpoints = <<>>
  /\ sortedScreenClasses = <<>>
  /\ screenClassMediaQueries = <<>>
  /\ returned = {}
  /\ call \in PendingDirectiveCalls
  /\ call.currentScreenClass \in {breakpoints[i][1] : i \in 1..Len(breakpoints)} \cup {Undefined}
  /\ initialScreenClass = Undefined
  /\ ProviderNotRendered

NextDirectives == createScreenClassProvider \/ useResponsivePropsWithDirectivesCall

SpecDirectives == InitDirectives /\ [][NextDirectives]_vars

\* ---------------------------------------------------------------- properties
NothingProduced ==
  /\ sortedBreakpoints = <<>>
  /\ sortedScreenClasses = <<>>
  /\ screenClassMediaQueries = <<>>
  /\ returned = {}

InfinityEntries == {i \in 1..Len(breakpoints) : breakpoints[i][2] = Infinity}

\* C1: createResponsiveSystem called with a breakpoint map of fewer than 2
\* entries throws the configuration error and returns nothing: no sorted
\* screen-class list, no media query, no provider and no hooks.
C1_TooFewKeysThrows ==
  (status # "unconfigured" /\ Len(breakpoints) < 2) =>
    /\ status = "error"
    /\ thrown = "breakpoints must have at least 2 keys"
    /\ NothingProduced

C1_Witness == status = "error" /\ Len(breakpoints) = 1 /\ breakpoints[1][2] = Infinity

\* C2: with 2 or more entries, createResponsiveSystem throws the configuration
\* error, before any sorted list or media query is produced, when the number
\* of Infinity entries is 0 or is 2 or more; with exactly one Infinity entry
\* it does not throw.
C2_InfinityCountChecked ==
  (status # "unconfigured" /\ Len(breakpoints) >= 2) =>
    IF Cardinality(InfinityEntries) = 1
    THEN status = "created" /\ thrown = "none" /\ returned = SystemHooks
    ELSE /\ status = "error"
         /\ thrown = "breakpoints must have exactly 1 entry with a value of Infinity"
         /\ NothingProduced

C2_Witness ==
  status = "error" /\ Len(breakpoints) >= 2 /\ Cardinality(InfinityEntries) = 2

\* C3: for every valid breakpoint map in every declaration order of its keys,
\* sortBreakpoints returns a permutation of the map's entries, ascending by
\* width with the Infinity entry last, and leaves the map as it was.
C3_SortedPermutation ==
  /\ [](status = "created" =>
          /\ Len(sortedBreakpoints) = Len(breakpoints)
          /\ Range(sortedBreakpoints) = Range(breakpoints)
          /\ \A i, j \in 1..Len(sortedBreakpoints) :
               i < j => numLE(sortedBreakpoints[i][2], sortedBreakpoints[j][2])
          /\ sortedBreakpoints[Len(sortedBreakpoints)][2] = Infinity
          /\ sortedScreenClasses =
               [i \in 1..Len(sortedBreakpoints) |-> sortedBreakpoints[i][1]])
  /\ [][breakpoints' = breakpoints]_vars

C3_Witness ==
  /\ status = "created"
  /\ Len(breakpoints) = 3
  /\ breakpoints[1][2] = Infinity
  /\ ~numLE(breakpoints[2][2], breakpoints[3][2])

ExampleBreakpoints ==
  <<<<"xs", Px(500)>>, <<"sm", Px(750)>>, <<"md", Px(1000)>>, <<"lg", Infinity>>>>

\* C4: the class at index i of the sorted breakpoints has minWidth 0 when it
\* is the first and otherwise the previous class's maxWidth + 1, and maxWidth
\* its configured width; its media query has a min-width constraint exactly
\* when minWidth is not 0 and a max-width constraint exactly when maxWidth is
\* not Infinity, min-width first.
C4_RangesAndMediaQueries ==
  /\ status = "created" =>
       /\ Len(screenClassMediaQueries) = Len(sortedBreakpoints)
       /\ \A i \in 1..Len(sortedBreakpoints) :
            LET q == screenClassMediaQueries[i][2]
                minWidth == IF i = 1 THEN Num(0)
                            ELSE Num(sortedBreakpoints[i - 1][2].h + 2)
                maxWidth == sortedBreakpoints[i][2]
                wanted == (IF minWidth.h # 0
                           THEN <<[feature |-> "min-width", value |-> minWidth]>>
                           ELSE <<>>)
                          \o (IF ~maxWidth.inf
                              THEN <<[feature |-> "max-width", value |-> maxWidth]>>
                              ELSE <<>>)
            IN /\ screenClassMediaQueries[i][1] = sortedBreakpoints[i][1]
               /\ q = wanted
  /\ LET qs == mediaQueriesOf(sortBreakpoints(ExampleBreakpoints))
     IN /\ mediaQueryString(qs[1][2]) = "(max-width: 500px)"
        /\ mediaQueryString(qs[2][2]) = "(min-width: 501px) and (max-width: 750px)"
        /\ mediaQueryString(qs[3][2]) = "(min-width: 751px) and (max-width: 1000px)"
        /\ mediaQueryString(qs[4][2]) = "(min-width: 1001px)"

C4_Witness ==
  /\ status = "created"
  /\ Len(screenClassMediaQueries) = 3
  /\ Len(screenClassMediaQueries[2][2]) = 2
  /\ screenClassMediaQueries[2][2][1].value # screenClassMediaQueries[2][2][2].value

\* the integer viewport widths tried: up to past the largest finite breakpoint + 1
\* C5: for every breakpoint map that passes validation, every non-negative
\* integer viewport width matches the media query of exactly one screen class.
C5_ExactlyOneMatch ==
  status = "created" =>
    \A w \in ViewportWidths : Cardinality(matchingClasses(w)) = 1

IsGetApplicableCall == call.fn = "getApplicableScreenClasses" /\ call.done
CurrentIsMember == call.currentScreenClass \in Range(call.sortedScreenClasses)

\* C6: in mode mobile-first, for a current class that is in the sorted list,
\* getApplicableScreenClasses returns the classes from the smallest up to and
\* including the current class, in ascending order.
C6_MobileFirstPrefix ==
  /\ (IsGetApplicableCall /\ call.cascadeMode = "mobile-first" /\ CurrentIsMember) =>
       \E p \in 1..Len(call.sortedScreenClasses) :
         /\ call.sortedScreenClasses[p] = call.currentScreenClass
         /\ Len(call.result) = p
         /\ \A k \in 1..p : call.result[k] = call.sortedScreenClasses[k]
  /\ getApplicableScreenClasses(<<"xs", "sm", "md", "lg", "xl">>, "md", "mobile-first")
       = <<"xs", "sm", "md">>

C6_Witness ==
  /\ IsGetApplicableCall
  /\ call.cascadeMode = "mobile-first"
  /\ Len(call.sortedScreenClasses) = 3
  /\ call.currentScreenClass = call.sortedScreenClasses[2]
  /\ Len(call.result) = 2

\* C7: in mode desktop-first, for a current class that is in the sorted list,
\* getApplicableScreenClasses returns the classes from the largest down to and
\* including the current class, in descending order.
C7_DesktopFirstSuffixReversed ==
  /\ (IsGetApplicableCall /\ call.cascadeMode = "desktop-first" /\ CurrentIsMember) =>
       \E p \in 1..Len(call.sortedScreenClasses) :
         /\ call.sortedScreenClasses[p] = call.currentScreenClass
         /\ Len(call.result) = Len(call.sortedScreenClasses) - p + 1
         /\ \A k \in 1..Len(call.result) :
              call.result[k] = call.sortedScreenClasses[Len(call.sortedScreenClasses) + 1 - k]
  /\ getApplicableScreenClasses(<<"xs", "sm", "md", "lg", "xl">>, "md", "desktop-first")
       = <<"xl", "lg", "md">>

C7_Witness ==
  /\ IsGetApplicableCall
  /\ call.cascadeMode = "desktop-first"
  /\ Len(call.sortedScreenClasses) = 3
  /\ call.currentScreenClass = call.sortedScreenClasses[2]
  /\ call.result = <<call.sortedScreenClasses[3], call.sortedScreenClasses[2]>>

\* C8: for every (sortedList, currentClass, mode) the sequence that
\* getApplicableScreenClasses returns is non-empty and ends with currentClass.
C8_EndsWithCurrent ==
  IsGetApplicableCall =>
    /\ call.result # <<>>
    /\ call.result[Len(call.result)] = call.currentScreenClass

\* C9: when the current class is not in the sorted list, the resolver fails
\* with an invalid-screen-class error in every cascade mode and returns no
\* sequence.
C9_NonMemberThrows ==
  (IsGetApplicableCall /\ ~CurrentIsMember) => call.thrown # "none"

\* C10: applying an empty override set returns the default value, whatever
\* the sequence of applicable classes.
C10_EmptyOverridesGiveDefault ==
  (call.fn = "applyOverrides" /\ call.done /\ DOMAIN call.overrides = {}) =>
    call.result = call.defaultValue

C10_Witness ==
  /\ call.fn = "applyOverrides"
  /\ call.done
  /\ DOMAIN call.overrides = {}
  /\ Len(call.applicableScreenClasses) = 2
  /\ call.result = Str("default")

IsApplyOverridesCall == call.fn = "applyOverrides" /\ call.done

\* the positions of the applicable sequence whose class has an override entry
overridden == {i \in 1..Len(call.applicableScreenClasses) :
                 call.applicableScreenClasses[i] \in DOMAIN call.overrides}

\* C11: of two classes a before b of the applicable sequence that both have an
\* override entry, b's value wins: the result is the entry of the last class
\* of the sequence that has one, whatever earlier classes and the default say.
C11_LaterOverrideWins ==
  (IsApplyOverridesCall /\ overridden # {}) =>
    \E b \in overridden :
      /\ \A a \in overridden : a <= b
      /\ call.result = call.overrides[call.applicableScreenClasses[b]]

C11_Witness ==
  /\ IsApplyOverridesCall
  /\ call.applicableScreenClasses = <<"xs", "md">>
  /\ DOMAIN call.overrides = {"xs", "md"}
  /\ call.overrides["xs"] = Str("one")
  /\ call.overrides["md"] = Str("two")
  /\ call.defaultValue = Str("default")
  /\ call.result = Str("two")

IsHookCall == call.fn = "useResponsiveValue" /\ call.done /\ call.thrown = "none"

\* the override sets that have the same entry, or the same lack of one, for class c
agreeOn(c, o1, o2) ==
  /\ (c \in DOMAIN o1) <=> (c \in DOMAIN o2)
  /\ c \in DOMAIN o1 => o1[c] = o2[c]

\* C12: in mode no-cascade, which is also the mode when cascadeMode is not
\* configured, the resolved value depends only on the default value and the
\* current class's override: every override set that agrees with the given
\* one on the current class resolves to the same value, and without an entry
\* for the current class the value is the default.
C12_NoCascadeIsolation ==
  (IsHookCall /\ cascadeMode \in {"no-cascade", Undefined}) =>
    /\ call.result = IF currentScreenClass \in DOMAIN call.overrides
                     THEN call.overrides[currentScreenClass]
                     ELSE call.defaultValue
    /\ \A other \in OverrideSets :
         agreeOn(currentScreenClass, call.overrides, other) =>
           useResponsiveValue(currentScreenClass, call.defaultValue, other) = call.result

C12_Witness ==
  /\ IsHookCall
  /\ cascadeMode = Undefined
  /\ Len(sortedScreenClasses) = 3
  /\ currentScreenClass = sortedScreenClasses[2]
  /\ DOMAIN call.overrides = {sortedScreenClasses[1], sortedScreenClasses[3]}
  /\ call.result = Str("default")

\* the positions of the sorted classes that have an override entry
withOverride == {i \in 1..Len(sortedScreenClasses) :
                   sortedScreenClasses[i] \in DOMAIN call.overrides}
currentPosition == CHOOSE i \in 1..Len(sortedScreenClasses) :
                     sortedScreenClasses[i] = currentScreenClass
Max(S) == CHOOSE x \in S : \A y \in S : y <= x
Min(S) == CHOOSE x \in S : \A y \in S : x <= y

ExampleSorted == <<"xs", "sm", "md", "lg">>
ExampleOverrides == [c \in {"sm", "md"} |-> Str(c)]
exampleValue(mode, screenClass) ==
  useResponsiveValueIn(ExampleSorted, mode, screenClass, Str("default"), ExampleOverrides)

\* C13: in mode mobile-first, useResponsiveValue resolves to the override of
\* the largest class not larger than the current class that has an entry, and
\* to the default value when no class up to the current one has an entry.
C13_MobileFirstNearestSmaller ==
  /\ (IsHookCall /\ cascadeMode = "mobile-first") =>
       LET upTo == {i \in withOverride : i <= currentPosition}
       IN call.result = IF upTo = {} THEN call.defaultValue
                        ELSE call.overrides[sortedScreenClasses[Max(upTo)]]
  /\ exampleValue("mobile-first", "xs") = Str("default")
  /\ exampleValue("mobile-first", "sm") = Str("sm")
  /\ exampleValue("mobile-first", "md") = Str("md")
  /\ exampleValue("mobile-first", "lg") = Str("md")

C13_Witness ==
  /\ IsHookCall
  /\ cascadeMode = "mobile-first"
  /\ Len(sortedScreenClasses) = 3
  /\ currentScreenClass = sortedScreenClasses[3]
  /\ DOMAIN call.overrides = {sortedScreenClasses[1], sortedScreenClasses[2]}
  /\ call.result = Str(sortedScreenClasses[2])

\* C14: in mode desktop-first, useResponsiveValue resolves to the override of
\* the smallest class not smaller than the current class that has an entry,
\* and to the default value when no class from the current one upward has one.
C14_DesktopFirstNearestLarger ==
  /\ (IsHookCall /\ cascadeMode = "desktop-first") =>
       LET from == {i \in withOverride : i >= currentPosition}
       IN call.result = IF from = {} THEN call.defaultValue
                        ELSE call.overrides[sortedScreenClasses[Min(from)]]
  /\ exampleValue("desktop-first", "xs") = Str("sm")
  /\ exampleValue("desktop-first", "sm") = Str("sm")
  /\ exampleValue("desktop-first", "md") = Str("md")
  /\ exampleValue("desktop-first", "lg") = Str("default")

C14_Witness ==
  /\ IsHookCall
  /\ cascadeMode = "desktop-first"
  /\ Len(sortedScreenClasses) = 3
  /\ currentScreenClass = sortedScreenClasses[1]
  /\ DOMAIN call.overrides = {sortedScreenClasses[2], sortedScreenClasses[3]}
  /\ call.result = Str(sortedScreenClasses[2])

IsMapping(v) == "obj" \in DOMAIN v
lastOverridden == Max(overridden)
lastOverride == call.overrides[call.applicableScreenClasses[lastOverridden]]

IsMergeCall == call.fn = "merge" /\ call.done /\ call.thrown = "none"
IsMergeOfTwoAtKey ==
  /\ IsMergeCall
  /\ Len(call.propsObjects) = 2
  /\ "a" \in DOMAIN call.propsObjects[1].obj
  /\ "a" \in DOMAIN call.propsObjects[2].obj
baseAtKey == call.propsObjects[1].obj["a"]
overrideAtKey == call.propsObjects[2].obj["a"]
resultAtKey == call.result.obj["a"]

\* r is b with o on top, for objects whose fields are scalars ...
mergedFlat(b, o, r) ==
  /\ "obj" \in DOMAIN r
  /\ DOMAIN r.obj = DOMAIN b.obj \cup DOMAIN o.obj
  /\ \A k \in DOMAIN r.obj : r.obj[k] = IF k \in DOMAIN o.obj THEN o.obj[k] ELSE b.obj[k]
\* ... and for arrays whose items are scalars
positionalFlat(b, o, r) ==
  /\ "arr" \in DOMAIN r
  /\ Len(r.arr) = MaxOf(Len(b.arr), Len(o.arr))
  /\ \A i \in 1..Len(r.arr) : r.arr[i] = IF i <= Len(o.arr) THEN o.arr[i] ELSE b.arr[i]

\* the literals of the merge tests
Nums(s) == Array([i \in 1..Len(s) |-> Number(s[i])], "")
Field(key, v) == Object(One(key, v), "")
ArrayExamples ==
  /\ plain(merge(<<Field("array", Nums(<<1, 2, 3>>)), Field("array", Nums(<<2, 4, 6>>))>>))
       = Field("array", Nums(<<2, 4, 6>>))
  /\ plain(merge(<<Field("array", Nums(<<1, 2, 3, 4>>)), Field("array", Nums(<<2, 4, 6>>))>>))
       = Field("array", Nums(<<2, 4, 6, 4>>))
  /\ plain(merge(<<Field("array", Nums(<<1, 2, 3>>)), Field("array", Nums(<<2, 4, 6, 8>>))>>))
       = Field("array", Nums(<<2, 4, 6, 8>>))
  /\ plain(merge(<<Field("array", Array(<<Field("one", Number(1)), Number(2), Number(3)>>, "")),
                   Field("array", Array(<<Field("two", Number(2)), Number(3), Number(4)>>, ""))>>))
       = Field("array", Array(<<Object([k \in {"one", "two"} |->
                                          IF k = "one" THEN Number(1) ELSE Number(2)], ""),
                                Number(3), Number(4)>>, ""))

\* C16: merging two arrays is positional: the result is as long as the longer
\* one; at an index the override has, the result holds the override's item,
\* merged with the base's item when both are objects or both are arrays; at an
\* index only the base has, the result holds the base's item.  The arrays of
\* the tests merge to [2,4,6], [2,4,6,4], [2,4,6,8] and [{one:1,two:2},3,4].
C16_ArraysMergePositionally ==
  /\ ArrayExamples
  /\ (IsMergeOfTwoAtKey /\ isArray(baseAtKey) /\ isArray(overrideAtKey)) =>
       /\ isArray(resultAtKey)
       /\ Len(resultAtKey.arr) = MaxOf(Len(baseAtKey.arr), Len(overrideAtKey.arr))
       /\ \A i \in 1..Len(resultAtKey.arr) :
            LET b == itemAt(baseAtKey, i)
                o == itemAt(overrideAtKey, i)
                r == resultAtKey.arr[i]
            IN IF i > Len(overrideAtKey.arr) THEN plain(r) = plain(b)
               ELSE IF "obj" \in DOMAIN b /\ "obj" \in DOMAIN o THEN mergedFlat(b, o, r)
               ELSE IF "arr" \in DOMAIN b /\ "arr" \in DOMAIN o THEN positionalFlat(b, o, r)
               ELSE plain(r) = plain(o)

\* a longer base whose first item and the override's first item are objects
\* that share one key
C16_Witness ==
  /\ IsMergeOfTwoAtKey
  /\ plain(baseAtKey) = Array(<<Object([k \in Keys |-> Number(1)], ""), Number(1)>>, "")
  /\ plain(overrideAtKey) = Array(<<Field("a", Number(2))>>, "")
  /\ plain(resultAtKey) = Array(<<Object([k \in Keys |-> IF k = "a" THEN Number(2) ELSE Number(1)], ""),
                                  Number(1)>>, "")

\* r is the fold of the list l: every key of every object, a scalar from the
\* last object that has the key, a mapping from the objects after the last
\* scalar, field by field from the last of them that has the field
foldsLeftToRight(l, r) ==
  /\ "obj" \in DOMAIN r
  /\ DOMAIN r.obj = UNION {DOMAIN l[i].obj : i \in 1..Len(l)}
  /\ \A k \in DOMAIN r.obj :
       LET definers == {i \in 1..Len(l) : k \in DOMAIN l[i].obj}
           scalars == {i \in definers : ~IsMapping(l[i].obj[k])}
           mappings == {i \in definers : \A j \in scalars : i > j}
       IN IF Max(definers) \in scalars
          THEN r.obj[k] = l[Max(definers)].obj[k]
          ELSE /\ "obj" \in DOMAIN r.obj[k]
               /\ DOMAIN r.obj[k].obj = UNION {DOMAIN l[i].obj[k].obj : i \in mappings}
               /\ \A f \in DOMAIN r.obj[k].obj :
                    r.obj[k].obj[f] =
                      l[Max({i \in mappings : f \in DOMAIN l[i].obj[k].obj})].obj[k].obj[f]

\* test 'merges objects in order'
OrderExample ==
  LET a == Object([k \in {"foo", "alpha"} |-> IF k = "foo" THEN Number(1) ELSE Boolean(TRUE)], "")
      b == Object([k \in {"foo", "bravo"} |-> IF k = "foo" THEN Number(2) ELSE Boolean(TRUE)], "")
      c == Object([k \in {"foo", "charlie"} |-> IF k = "foo" THEN Number(3) ELSE Boolean(TRUE)], "")
  IN plain(merge(<<a, b, c>>))
       = Object([k \in {"foo", "alpha", "bravo", "charlie"} |->
                   IF k = "foo" THEN Number(3) ELSE Boolean(TRUE)], "")

\* a finished useResponsiveProps under a provider whose class is one of the system's
IsPropsCall ==
  /\ call.fn = "useResponsiveProps" /\ call.done /\ call.thrown = "none"
  /\ call.currentScreenClass \in Range(call.sortedScreenClasses)
positionOf(c) == indexOf(call.sortedScreenClasses, c)
\* c's overrides apply; c2's overrides are applied after c1's
applies(c) ==
  /\ c \in Range(call.sortedScreenClasses)
  /\ CASE call.cascadeMode = "mobile-first" -> positionOf(c) <= positionOf(call.currentScreenClass)
       [] call.cascadeMode = "desktop-first" -> positionOf(c) >= positionOf(call.currentScreenClass)
       [] OTHER -> c = call.currentScreenClass
appliedAfter(c1, c2) ==
  IF call.cascadeMode = "desktop-first" THEN positionOf(c2) < positionOf(c1)
  ELSE positionOf(c2) > positionOf(c1)
\* the keys of the props that are not screen classes of the system
baseKeys == DOMAIN call.props.obj \ Range(call.sortedScreenClasses)
classesSetting(k) ==
  {c \in ScreenClassNames :
     /\ applies(c)
     /\ c \in DOMAIN call.props.obj
     /\ IsMapping(call.props.obj[c])
     /\ k \in DOMAIN call.props.obj[c].obj}

\* C17: merge folds the list left to right: the result has every key of every
\* object; where the last object that has a key holds a scalar, that scalar is
\* the value; mappings that follow each other under a key are merged field by
\* field, later ones winning.  useResponsiveProps gives the base props with the
\* overrides of the applicable classes on top, the class applied last winning.
C17_MergeFoldsInOrder ==
  /\ OrderExample
  /\ (IsMergeCall /\ call.propsObjects \in FlatPropsLists) =>
       foldsLeftToRight(call.propsObjects, call.result)
  /\ IsPropsCall =>
       /\ "obj" \in DOMAIN call.result
       /\ DOMAIN call.result.obj \subseteq Keys \cup baseKeys
       /\ \A k \in Keys \cup baseKeys :
            IF classesSetting(k) = {}
            THEN /\ k \in DOMAIN call.result.obj <=> k \in baseKeys
                 /\ k \in baseKeys => plain(call.result.obj[k]) = plain(call.props.obj[k])
            ELSE /\ k \in DOMAIN call.result.obj
                 /\ \E c \in classesSetting(k) :
                      /\ \A c2 \in classesSetting(k) : ~appliedAfter(c, c2)
                      /\ call.result.obj[k] = call.props.obj[c].obj[k]

\* three objects: mappings under a merged, a scalar under b replaced
C17_Witness ==
  /\ IsMergeCall
  /\ Len(call.propsObjects) = 3
  /\ plain(call.propsObjects[1]) =
       Object([k \in Keys |-> IF k = "a" THEN Field("a", Number(1)) ELSE Number(1)], "")
  /\ plain(call.propsObjects[2]) = Field("a", Field("b", Number(2)))
  /\ plain(call.propsObjects[3]) = Field("b", Number(3))
  /\ plain(call.result) =
       Object([k \in Keys |->
                 IF k = "a"
                 THEN Object([f \in Keys |-> IF f = "a" THEN Number(1) ELSE Number(2)], "")
                 ELSE Number(3)], "")

\* b and o are not both objects and not both arrays, and one of them is mergeable
disagreeInKind(b, o) ==
  /\ isMergeableObject(b) \/ isMergeableObject(o)
  /\ ~("obj" \in DOMAIN b /\ "obj" \in DOMAIN o)
  /\ ~("arr" \in DOMAIN b /\ "arr" \in DOMAIN o)
\* a finished merge of two props objects of which the second has the key "a";
\* the first one's value under "a" is undefined when it does not have the key
IsMergeOntoKey ==
  /\ IsMergeCall
  /\ Len(call.propsObjects) = 2
  /\ "a" \in DOMAIN call.propsObjects[2].obj
baseOrAbsentAtKey == getProperty(call.propsObjects[1].obj, "a")

\* C18: where the override has a value, at a key or at an array index, and
\* that value and the base's value there disagree in kind (one an array and
\* the other an object, or one of them mergeable and the other a scalar, null
\* or absent), the result there is the override's value and nothing else.
C18_KindDisagreementTakesOverride ==
  IsMergeOntoKey =>
    LET b0 == baseOrAbsentAtKey
        o0 == overrideAtKey
        r0 == resultAtKey
    IN /\ disagreeInKind(b0, o0) => plain(r0) = plain(o0)
       /\ ("arr" \in DOMAIN b0 /\ "arr" \in DOMAIN o0) =>
            \A i \in 1..Len(o0.arr) :
              disagreeInKind(itemAt(b0, i), o0.arr[i]) =>
                plain(r0.arr[i]) = plain(o0.arr[i])
       /\ ("obj" \in DOMAIN b0 /\ "obj" \in DOMAIN o0) =>
            \A k \in DOMAIN o0.obj :
              disagreeInKind(getProperty(b0.obj, k), o0.obj[k]) =>
                plain(r0.obj[k]) = plain(o0.obj[k])

\* an object under a scalar and an array under an object, index by index
C18_Witness ==
  /\ IsMergeOfTwoAtKey
  /\ plain(baseAtKey) = Array(<<Object([k \in Keys |-> Number(1)], ""), Nums(<<1>>)>>, "")
  /\ plain(overrideAtKey) = Array(<<Number(2), Field("a", Number(2))>>, "")
  /\ plain(resultAtKey) = Array(<<Number(2), Field("a", Number(2))>>, "")

\* a finished merge or useResponsiveProps; every object and array of its
\* arguments was allocated by the caller
IsMergingCall ==
  /\ call.fn \in {"merge", "useResponsiveProps"}
  /\ call.done
  /\ call.thrown = "none"

\* C19: every object and array in the result of a merge, nested ones and the
\* items at indices that only the base array has included, is a new
\* allocation and none of the caller's.  The structures the code assigns to
\* (final, deepmerge's destination) are the ones it returns, so new
\* allocations throughout also mean that no argument was written to.
C19_ResultIsFresh ==
  IsMergingCall => idsIn(call.result) = {"new"}

\* the base array is longer and its last item, an object, is beyond the override
C19_Witness ==
  /\ IsMergeOfTwoAtKey
  /\ baseAtKey = Array(<<Number(1), ObjectItemOf(1)>>, "caller")
  /\ overrideAtKey = Array(<<Number(2)>>, "caller")
  /\ resultAtKey = Array(<<Number(2), Object([k \in Keys |-> Number(1)], "new")>>, "new")

\* the classes whose range, from one more than the previous breakpoint up to
\* their own, contains the viewport's width: the device's actual class
actualClasses ==
  {sortedBreakpoints[i][1] : i \in {j \in 1..Len(sortedBreakpoints) :
     /\ numGE(Px(viewportWidth), minWidthPx(sortedBreakpoints, j))
     /\ numLE(Px(viewportWidth), sortedBreakpoints[j][2])}}

classesAt(widthPx) ==
  {sortedBreakpoints[i][1] : i \in {j \in 1..Len(sortedBreakpoints) :
     /\ numGE(Px(widthPx), minWidthPx(sortedBreakpoints, j))
     /\ numLE(Px(widthPx), sortedBreakpoints[j][2])}}

\* the provider has subscribed and has not been unmounted
Mounted == pc \in {"effect ran", "rendered"}

\* C21: a change of the viewport's width from one width in the current class's
\* range to another width in it raises no change event and leaves the provider's
\* state and the consumers' content as they were; and while the provider is
\* mounted its state only changes to the class whose range holds the viewport's
\* width, from a class whose range does not.
C21_ChangesOnlyBetweenClasses ==
  [][/\ (/\ viewportWidth' # viewportWidth
         /\ currentScreenClass \in classesAt(viewportWidth)
         /\ currentScreenClass \in classesAt(viewportWidth'))
        => (events' = {} /\ currentScreenClass' = currentScreenClass /\ content' = content)
     /\ (Mounted /\ pc' = pc /\ currentScreenClass' # currentScreenClass)
        => (/\ currentScreenClass' \in classesAt(viewportWidth)
            /\ currentScreenClass \notin classesAt(viewportWidth))]_vars

\* a mounted provider whose viewport was resized inside the current class's
\* range, with nothing left to dispatch
C21_Witness ==
  /\ pc = "rendered"
  /\ previousWidth # viewportWidth
  /\ currentScreenClass \in classesAt(previousWidth) \cap classesAt(viewportWidth)
  /\ events = {}

\* what a consumer can have rendered: the value for one of the breakpoint map's keys
consumerContents ==
  {useResponsiveValue(c, Str("default"), ComponentOverrides) : c \in Range(sortedScreenClasses)}

\* C26: the provider's state is undefined or a key of the breakpoint map, and
\* once it is a key it stays one; whenever it is undefined the consumers are not
\* rendered at all, as is the case without an initialScreenClass before the
\* effect's initial check; what the context supplies and what the consumers
\* render is always for a key of the breakpoint map.
C26_NoUndefinedScreenClass ==
  /\ [](/\ currentScreenClass \in Range(sortedScreenClasses) \cup {Undefined}
        /\ currentScreenClass = Undefined => (content = Nothing /\ contextValue = "null")
        /\ (initialScreenClass = Undefined /\ pc \in {"server rendered", "first render"})
             => content = Nothing
        /\ contextValue # "null" => contextValue \in Range(sortedScreenClasses)
        /\ content # Nothing => content \in consumerContents)
  /\ [][currentScreenClass # Undefined => currentScreenClass' \in Range(sortedScreenClasses)]_vars

\* no initialScreenClass, and the consumers rendered after the initial check set a class
C26_Witness ==
  /\ initialScreenClass = Undefined
  /\ pc = "rendered"
  /\ currentScreenClass \in Range(sortedScreenClasses)
  /\ content \in consumerContents

\* the media query of a class matches at a width
queryMatches(screenClass, widthPx) ==
  \E i \in 1..Len(screenClassMediaQueries) :
    /\ screenClassMediaQueries[i][1] = screenClass
    /\ matches(screenClassMediaQueries[i][2], widthPx)

\* C27: the dispatch of a change event whose matches is false leaves the current
\* screen class as it was, the dispatch of one whose matches is true to a list
\* that has its listener sets it to the class of that list's media query, and
\* a step that changes the current screen class is such a dispatch, or the
\* effect's initial check finding the new class's media query matching, or the
\* first render taking initialScreenClass.
C27_OnlyMatchingEventsSet ==
  [][/\ \A event \in events \ events' :
          /\ ~event.matches => currentScreenClass' = currentScreenClass
          /\ (event.matches /\ event.screenClass \in subscribed)
               => currentScreenClass' = event.screenClass
     /\ currentScreenClass' # currentScreenClass =>
          \/ \E event \in events \ events' :
               event.matches /\ currentScreenClass' = event.screenClass
          \/ /\ pc = "first render" /\ pc' = "effect ran"
             /\ queryMatches(currentScreenClass', viewportWidth)
          \/ pc' \in {"server rendered", "first render"} /\ currentScreenClass' = initialScreenClass]_vars

\* a resize out of one class into another whose two events, one with matches
\* false and one with matches true, have both been dispatched
C27_Witness ==
  /\ Mounted
  /\ events = {}
  /\ classesAt(previousWidth) # {}
  /\ classesAt(viewportWidth) # {}
  /\ classesAt(previousWidth) # classesAt(viewportWidth)
  /\ currentScreenClass \in classesAt(viewportWidth)

C29_UnsubscribeRemovesEveryListener ==
  /\ [](/\ Mounted => (/\ subscribed = Range(sortedScreenClasses)
                       /\ Range(unsubscribeFns) = subscribed)
        /\ pc = "unmounted" => (subscribed = {} /\ content = Nothing))
  /\ [][/\ (Mounted /\ pc' = "unmounted") => subscribed' = subscribed \ Range(unsubscribeFns)
        /\ pc = "unmounted" => (/\ pc' = "unmounted"
                                /\ subscribed' = {}
                                /\ currentScreenClass' = currentScreenClass
                                /\ content' = content)]_vars

\* an unmounted provider whose viewport then went into another class: the events
\* were dispatched and the state is still the class of before
C29_Witness ==
  /\ pc = "unmounted"
  /\ subscribed = {}
  /\ events = {}
  /\ classesAt(viewportWidth) # {}
  /\ currentScreenClass \in classesAt(previousWidth) \ classesAt(viewportWidth)

\* C30: a call of useScreenClass or of useResponsiveValue by a component that
\* no ScreenClassProvider is rendered above ends in the Error of useScreenClass
\* and returns nothing: not the default value, not an override, not a class.
C30_HooksOutsideProviderThrow ==
  (call.done /\ pc = "not rendered") =>
    /\ call.thrown = "useScreenClass may only be used inside of a ScreenClassProvider"
    /\ call.result = UndefinedValue

\* useResponsiveValue was called outside a provider, with an override for every class
C30_Witness ==
  /\ pc = "not rendered"
  /\ call.fn = "useResponsiveValue"
  /\ call.done
  /\ DOMAIN call.overrides = ScreenClassNames
  /\ call.thrown # "none"

\* C22: the system's sorted list of screen classes is at all times the list the
\* configuration gave, and no call of getApplicableScreenClasses, applyOverrides
\* or useResponsiveValue, after whatever calls came before, changes it or the
\* default value and overrides the caller holds.
C22_SortedListNeverModified ==
  /\ [](sortedScreenClasses = [i \in 1..Len(breakpoints) |-> sortBreakpoints(breakpoints)[i][1]])
  /\ [][/\ sortedScreenClasses' = sortedScreenClasses
        /\ call'.memory.overrides = call.memory.overrides
        /\ call'.memory.defaultValue = call.memory.defaultValue]_vars

\* a desktop-first useResponsiveValue that reversed two or more classes and
\* took an override
C22_Witness ==
  /\ call.fn = "useResponsiveValue"
  /\ call.mode = "desktop-first"
  /\ Len(call.memory.applicableScreenClasses) >= 2
  /\ call.memory.applicableScreenClasses[1] = sortedScreenClasses[Len(sortedScreenClasses)]
  /\ call.result # call.memory.defaultValue

\* the entries are in ascending order of their widths
IsAscending(entries) ==
  \A i \in 1..(Len(entries) - 1) : numLE(entries[i][2], entries[i + 1][2])

\* the configured width of a class
widthOf(screenClass) ==
  (CHOOSE i \in 1..Len(breakpoints) : breakpoints[i][1] = screenClass)

\* the classes of the breakpoint map whose width is below (above) that of a class
smallerClasses(screenClass) ==
  {breakpoints[i][1] : i \in {j \in 1..Len(breakpoints) :
     ~numGE(breakpoints[j][2], breakpoints[widthOf(screenClass)][2])}}
largerClasses(screenClass) ==
  {breakpoints[i][1] : i \in {j \in 1..Len(breakpoints) :
     ~numLE(breakpoints[j][2], breakpoints[widthOf(screenClass)][2])}}
HasDistinctWidths ==
  \A i, j \in 1..Len(breakpoints) : breakpoints[i][2] = breakpoints[j][2] => i = j

\* C25: whatever the order the keys of a valid breakpoint map are declared in,
\* the system created from it has its screen classes sorted from the smallest
\* width to the largest, so that (for distinct widths) the mobile-first classes
\* of a class are that class and the smaller ones, smallest first, and the
\* desktop-first classes are that class and the larger ones, largest first.
C25_SortedWhateverTheKeyOrder ==
  status = "created" =>
    /\ IsAscending(sortedBreakpoints)
    /\ (call.done /\ HasDistinctWidths /\ call.breakpoint \in Range(sortedScreenClasses)) =>
         /\ call.result[Len(call.result)] = call.breakpoint
         /\ call.fn = "getMobileFirstScreenClasses" =>
              Range(call.result) = smallerClasses(call.breakpoint) \cup {call.breakpoint}
         /\ call.fn = "getDesktopFirstScreenClasses" =>
              Range(call.result) = largerClasses(call.breakpoint) \cup {call.breakpoint}

\* a call of the directives' useResponsiveProps under a provider has returned or thrown
IsDirectiveCall ==
  /\ call.fn = "useResponsiveProps"
  /\ "engine" \in DOMAIN call
  /\ call.done
  /\ call.currentScreenClass # Undefined

configuredClasses == {breakpoints[i][1] : i \in 1..Len(breakpoints)}
classSets(screenClass, directive) ==
  setsDirective(getProperty(call.props.obj, screenClass), directive)

\* a class sets andLarger and a larger class sets andSmaller
HasConflictingDirectives ==
  \E c1, c2 \in configuredClasses :
    /\ c1 \in smallerClasses(c2)
    /\ classSets(c1, "andLarger")
    /\ classSets(c2, "andSmaller")
\* one class sets both directives
HasBothDirectives ==
  \E c \in configuredClasses : classSets(c, "andSmaller") /\ classSets(c, "andLarger")

\* C23: useResponsiveProps of the version with directives, called under a
\* provider, throws when a class's props set andLarger and a larger class's
\* props set andSmaller and when the props of one class set both, and does not
\* throw otherwise, that is when every class that sets andSmaller is smaller
\* than every class that sets andLarger.
C23_AmbiguousDirectivesThrow ==
  IsDirectiveCall =>
    ((HasConflictingDirectives \/ HasBothDirectives) <=> call.thrown # "none")

\* the classes whose directive reaches a class: the smaller ones that set
\* andLarger and the larger ones that set andSmaller
reachingClasses(screenClass) ==
  {c \in configuredClasses :
     \/ c \in smallerClasses(screenClass) /\ classSets(c, "andLarger")
     \/ c \in largerClasses(screenClass) /\ classSets(c, "andSmaller")}

\* how many classes apart two classes are in the order of their widths
distance(c1, c2) ==
  LET r1 == Cardinality(smallerClasses(c1) \cap configuredClasses)
      r2 == Cardinality(smallerClasses(c2) \cap configuredClasses)
  IN IF r1 > r2 THEN r1 - r2 ELSE r2 - r1

\* the classes, among the current one and those that reach it, whose props define a prop
definingClasses(screenClass, prop) ==
  {c \in reachingClasses(screenClass) \cup {screenClass} :
     /\ getProperty(call.props.obj, c) # UndefinedValue
     /\ prop \in DOMAIN getProperty(call.props.obj, c).obj}

\* the value of a prop by the rule: that of the closest defining class, the
\* current class being the closest of all, else the top-level one
valueByDistance(screenClass, prop) ==
  IF definingClasses(screenClass, prop) = {}
  THEN getProperty(call.props.obj, prop)
  ELSE LET closest == CHOOSE c \in definingClasses(screenClass, prop) :
                        \A d \in definingClasses(screenClass, prop) :
                          distance(c, screenClass) <= distance(d, screenClass)
       IN getProperty(call.props.obj, closest).obj[prop]

\* C24: when useResponsiveProps of the version with directives returns, each
\* prop has the value given by the closest of the classes that define it among
\* the current class and the classes whose andLarger (from below) or andSmaller
\* (from above) reaches the current class, the top-level value if there is
\* none, and the directives themselves are not among the props.
C24_ClosestDirectiveWins ==
  (IsDirectiveCall /\ call.thrown = "none") =>
    /\ \A prop \in {"buttonSize", "buttonText"} :
         getProperty(call.result.obj, prop) = valueByDistance(call.currentScreenClass, prop)
    /\ DOMAIN call.result.obj \cap {"andSmaller", "andLarger"} = {}
====
